---- MODULE Spec2Model ----
(***************************************************************************)
(* State-machine model of physics_ai: the campaign orchestrator            *)
(* (orchestrate.run_autonomous_campaign) with the collaborators it calls   *)
(* (proposal, symbolic, background, perturbation, qnm, physics_rules,      *)
(* explore, storage).                                                      *)
(*                                                                         *)
(* Number representation.  The program computes with Python floats.  The   *)
(* model uses fixed point integers:                                        *)
(*   - theory parameters (mass, alpha, beta, zeta, kinetic_coeff) are in   *)
(*     thousandths (1.0 is 1000, 0.01 is 10);                              *)
(*   - frequencies omega_real / omega_imag and their differences are in    *)
(*     millionths (0.02 is 20000), rounded towards minus infinity.         *)
(*                                                                         *)
(* Strings the program builds by formatting are built here with \o.  An    *)
(* action expression "t1 + t2 + ..." is the sequence <<t1, t2, ...>> of    *)
(* its summands.                                                           *)
(***************************************************************************)
EXTENDS Integers, Sequences, FiniteSets, TLC

(***************************************************************************)
(* Bounds of the model (not program constants).                            *)
(***************************************************************************)
\* requested proposal counts range over -MaxCount .. MaxCount
MaxCount == 4
\* longest reply of the language model
MaxLlm == 2

(***************************************************************************)
(* Generic helpers                                                         *)
(***************************************************************************)
Range(s) == {s[i] : i \in 1..Len(s)}

Abs(x) == IF x < 0 THEN -x ELSE x

Max2(a, b) == IF a >= b THEN a ELSE b

Min2(a, b) == IF a <= b THEN a ELSE b

\* max(...) of Python over a non-empty finite set of integers
MaxOf(S) == CHOOSE m \in S : \A x \in S : x <= m

\* Python's lst[:count]: the first count items when count >= 0, all but the
\* last -count items when count < 0.
SliceTo(lst, count) ==
    IF count >= 0
    THEN SubSeq(lst, 1, Min2(count, Len(lst)))
    ELSE SubSeq(lst, 1, Max2(Len(lst) + count, 0))

\* Python's dict.update: keys of upd override, the others are kept.
DictUpdate(d, upd) ==
    [k \in (DOMAIN d) \cup (DOMAIN upd) |-> IF k \in DOMAIN upd THEN upd[k] ELSE d[k]]

\* Python's dict.get(key, default)
DictGet(d, key, default) == IF key \in DOMAIN d THEN d[key] ELSE default

EmptyDict == [k \in {} |-> 0]

\* value of a local variable that has not been assigned yet
None == [none |-> TRUE]

\* name of the exception that left the function when there is none
NoError == "None"

(***************************************************************************)
(* types.py                                                                *)
(***************************************************************************)
\* class Method(str, Enum)
SHOOTING == "shooting"
WKB == "wkb"
SPECTRAL == "spectral"

\* summands whose text is empty after str.strip()
BlankTerms == {"", " "}

\* TheorySpec.ensure_non_empty_action: value.strip() must be non-empty.
\* A sum of two or more summands contains a "+" and is never blank.
IsBlankAction(action) ==
    \/ Len(action) = 0
    \/ Len(action) = 1 /\ action[1] \in BlankTerms

\* TheorySpec(...) / TheorySpec.model_validate: the field validator runs
TheorySpecValid(t) == ~IsBlankAction(t.action)


(***************************************************************************)
(* theory.py                                                               *)
(***************************************************************************)
\* summands that contain "f(r)" or "f_r" once lower-cased and stripped of spaces
FRTerms == {"f(R)", "f_R"}

\* summands that contain "einstein-hilbert", "r-2*lambda" or "r-2lambda"
GRTerms == {"R - 2*Lambda", "Einstein-Hilbert"}

\* summands that contain "gauss-bonnet" or "gb"
GBTerms == {"Gauss-Bonnet", "GB"}

\* classify_theory_family: first matching family, in the order of the code
classify_theory_family(theory) ==
    IF \E t \in Range(theory.action) : t \in FRTerms THEN "f(R)"
    ELSE IF \E t \in Range(theory.action) : t \in GRTerms THEN "GR"
    ELSE IF \E t \in Range(theory.action) : t \in GBTerms THEN "Einstein-scalar-GB"
    ELSE "generic_modified_gravity"

(***************************************************************************)
(* symbolic.py                                                             *)
(***************************************************************************)
\* summands sympy cannot parse (unbalanced bracket, dangling operator)
MalformedTerms == {"(R", "R**"}

\* compile_action: sp.sympify raises SympifyError on an empty expression and
\* on a summand it cannot parse.
CompileRaises(theory) ==
    \/ IsBlankAction(theory.action)
    \/ \E t \in Range(theory.action) : t \in MalformedTerms \cup BlankTerms

\* _einstein_equation_strings / _fr_equation_strings / the generic equation
FieldEquations(family) ==
    IF family = "GR" THEN <<"Eq(G(mu, nu), kappa*T(mu, nu))", "Eq(R, -T*kappa)">>
    ELSE IF family = "f(R)" THEN <<"Eq(fR(R)*R(mu, nu) - ..., kappa*T(mu, nu))", "Eq(3*Box*fR(R) + R*fR(R) - 2*f(R), T*kappa)">>
    ELSE <<"Eq(deltaS/dphi, 0)">>

\* derive_field_equations, when compile_action does not raise.  The sha256
\* digest of the canonical JSON of the payload is represented by the payload.
derive_field_equations(theory, run_id) ==
    LET family == classify_theory_family(theory)
        equations == FieldEquations(family)
    IN [run_id |-> run_id,
        theory_name |-> theory.name,
        stage |-> "eom",
        equations |-> equations,
        canonical_hash |-> [theory |-> theory, family |-> family, equations |-> equations],
        metadata |-> [family |-> family]]

(***************************************************************************)
(* background.py                                                           *)
(***************************************************************************)
\* mutant of reduce_to_background_odes: the f(R) branch adds the unknown C(r)
\* but not its equation
reduce_to_background_odesNoThirdEquation(theory, artifact, run_id) ==
    LET family == DictGet(artifact.metadata, "family", "generic")
        equations == <<"eq1", "eq2">>
        unknowns == IF family = "f(R)" THEN <<"A(r)", "B(r)", "C(r)">> ELSE <<"A(r)", "B(r)">>
    IN [run_id |-> run_id,
        theory_name |-> theory.name,
        ansatz |-> "static_spherical",
        unknown_functions |-> unknowns,
        reduced_equations |-> equations,
        consistency |-> [equation_count |-> Len(equations),
                         unknown_count |-> Len(unknowns),
                         square_system |-> Len(equations) >= Len(unknowns),
                         bianchi_like_redundancy |-> Max2(Len(equations) - Len(unknowns), 0)]]

\* reduce_to_background_odes
reduce_to_background_odes(theory, artifact, run_id) ==
    LET family == DictGet(artifact.metadata, "family", "generic")
        equations == IF family = "f(R)" THEN <<"eq1", "eq2", "eq3">> ELSE <<"eq1", "eq2">>
        unknowns == IF family = "f(R)" THEN <<"A(r)", "B(r)", "C(r)">> ELSE <<"A(r)", "B(r)">>
    IN [run_id |-> run_id,
        theory_name |-> theory.name,
        ansatz |-> "static_spherical",
        unknown_functions |-> unknowns,
        reduced_equations |-> equations,
        consistency |-> [equation_count |-> Len(equations),
                         unknown_count |-> Len(unknowns),
                         square_system |-> Len(equations) >= Len(unknowns),
                         bianchi_like_redundancy |-> Max2(Len(equations) - Len(unknowns), 0)]]

\* BackgroundSystem.consistency is a dict[str, Any]: what a substituted
\* BackgroundReducer may hand back in that field.
StubConsistencies ==
    {[square_system |-> TRUE], [square_system |-> FALSE], [equation_count |-> 1]}

\* a BackgroundSystem built by a substituted reducer
StubBackground(theory, run_id, consistency) ==
    [run_id |-> run_id,
     theory_name |-> theory.name,
     ansatz |-> "static_spherical",
     unknown_functions |-> <<"A(r)">>,
     reduced_equations |-> <<"eq1">>,
     consistency |-> consistency]

(***************************************************************************)
(* perturbation.py                                                         *)
(***************************************************************************)
\* derive_master_equation with its defaults family="axial", mass=1.0, ell=2
derive_master_equation(background, run_id) ==
    [run_id |-> run_id,
     theory_name |-> background.theory_name,
     family |-> "axial",
     master_equation |-> "Eq((omega**2 - V)*Psi(r) + Derivative(Psi(r), (r, 2)), 0)",
     effective_potential |-> "6*(r - 2)*(r - 1)/r**4",
     metadata |-> [ell |-> 2, mass |-> 1000]]


(***************************************************************************)
(* qnm.py                                                                  *)
(***************************************************************************)
\* 1.0 / (3.0 * math.sqrt(3.0)) = 0.19245008..., in millionths
EikonalPrefactorMicro == 192450

\* default tolerance of compare_methods, 0.02, in millionths
DefaultToleranceMicro == 20000

\* eikonal_seed raises ValueError("mass must be positive")
EikonalRaises(mass) == mass <= 0

\* eikonal_seed(l, n, mass) for mass > 0 (mass in thousandths):
\* prefactor = 1 / (3*sqrt(3)*mass), seed = ((l + 0.5)*prefactor, -(n + 0.5)*prefactor)
eikonal_seed(l, n, mass) ==
    LET prefactor == (EikonalPrefactorMicro * 1000) \div mass
    IN [real |-> ((2 * l + 1) * prefactor) \div 2,
        imag |-> -(((2 * n + 1) * prefactor) \div 2)]

\* the adjust table of solve_qnm, in thousandths
Adjust(method) ==
    IF method = SHOOTING THEN [real |-> 1000, imag |-> 1000]
    ELSE IF method = WKB THEN [real |-> 1010, imag |-> 990]
    ELSE [real |-> 995, imag |-> 1005]

\* solve_qnm(config, run_id, method), when eikonal_seed does not raise
solve_qnm(config, run_id, method) ==
    LET seed == eikonal_seed(config.l, config.n, config.mass)
        adjust == Adjust(method)
    IN [run_id |-> run_id,
        method |-> method,
        l |-> config.l,
        n |-> config.n,
        omega_real |-> (seed.real * adjust.real) \div 1000,
        omega_imag |-> -(((-seed.imag) * adjust.imag) \div 1000)]

\* itertools.combinations(results, 2), as index pairs
Pairs(results) == {<<i, j>> \in (1..Len(results)) \X (1..Len(results)) : i < j}

\* mutant of compare_methods: only neighbouring results are compared
compare_methodsNeighbours(results, tolerance) ==
    IF Len(results) < 2
    THEN [max_abs_delta_real |-> 0, max_abs_delta_imag |-> 0, is_consistent |-> TRUE]
    ELSE LET deltas_real == {Abs(results[i].omega_real - results[i + 1].omega_real) : i \in 1..(Len(results) - 1)}
             deltas_imag == {Abs(results[i].omega_imag - results[i + 1].omega_imag) : i \in 1..(Len(results) - 1)}
             max_real == MaxOf(deltas_real)
             max_imag == MaxOf(deltas_imag)
         IN [max_abs_delta_real |-> max_real,
             max_abs_delta_imag |-> max_imag,
             is_consistent |-> max_real <= tolerance /\ max_imag <= tolerance]

\* compare_methods(results, tolerance)
compare_methods(results, tolerance) ==
    IF Len(results) < 2
    THEN [max_abs_delta_real |-> 0, max_abs_delta_imag |-> 0, is_consistent |-> TRUE]
    ELSE LET deltas_real == {Abs(results[p[1]].omega_real - results[p[2]].omega_real) : p \in Pairs(results)}
             deltas_imag == {Abs(results[p[1]].omega_imag - results[p[2]].omega_imag) : p \in Pairs(results)}
             max_real == MaxOf(deltas_real)
             max_imag == MaxOf(deltas_imag)
         IN [max_abs_delta_real |-> max_real,
             max_abs_delta_imag |-> max_imag,
             is_consistent |-> max_real <= tolerance /\ max_imag <= tolerance]

\* spectrum_table(results): one row per result
spectrum_table(results) ==
    [i \in 1..Len(results) |->
        [run_id |-> results[i].run_id,
         method |-> results[i].method,
         l |-> results[i].l,
         n |-> results[i].n,
         omega_real |-> results[i].omega_real,
         omega_imag |-> results[i].omega_imag]]

(***************************************************************************)
(* physics_rules.py                                                        *)
(***************************************************************************)
\* _get_parameter(theory, *names, default): first name present wins
RECURSIVE _get_parameter(_, _, _)
_get_parameter(theory, names, default) ==
    IF names = <<>> THEN default
    ELSE IF Head(names) \in DOMAIN theory.parameters THEN theory.parameters[Head(names)]
    ELSE _get_parameter(theory, Tail(names), default)

GhostReason == "Ghost instability detected: kinetic coefficient <= 0"
WrongSignReason == "Wrong-sign kinetic term detected."
DivergenceReason == "Divergence filter triggered by large coupling magnitude."
UnstableReason == "Unstable mode detected: positive Im(omega)."

\* qnm_results is an Iterable[QNMResult] or None: a list, a one-shot iterator
\* (a generator, iter(...)) or None, each with the items it holds
ListOf(items) == [kind |-> "list", items |-> items]

IteratorOf(items) == [kind |-> "iterator", items |-> items]

NoResults == [kind |-> "none", items |-> <<>>]

\* bool(qnm_results) of line 41: None and the empty list are false; an
\* iterator object is true whatever it is going to yield
Truthy(qnm_results) ==
    \/ qnm_results.kind = "iterator"
    \/ qnm_results.kind = "list" /\ qnm_results.items # <<>>

\* mutant of line 23: zeta is looked up before kinetic_coeff
KineticCoefficientZetaFirst(theory) == _get_parameter(theory, <<"zeta", "kinetic_coeff">>, 1000)

\* line 23: kinetic_coeff, else zeta, else 1.0 (in thousandths)
KineticCoefficient(theory) == _get_parameter(theory, <<"kinetic_coeff", "zeta">>, 1000)

\* line 24
GhostInstability(kinetic) == kinetic <= 0

\* mutant of line 29: the comparison of line 24 is repeated
WrongSignKineticNonPositive(kinetic) == kinetic <= 0

\* line 29
WrongSignKinetic(kinetic) == kinetic < 0

\* mutant of line 35: a magnitude of exactly 100 counts as divergent
DivergentBackgroundInclusive(alpha, beta) == Abs(alpha) >= 100000 \/ Abs(beta) >= 100000

\* line 35, the magnitudes in thousandths
DivergentBackground(alpha, beta) == Abs(alpha) > 100000 \/ Abs(beta) > 100000

\* line 42: max(result.omega_imag for result in qnm_results, default=-1.0),
\* in millionths
MaxGrowth(qnm_results) ==
    IF qnm_results.items # <<>>
    THEN MaxOf({qnm_results.items[i].omega_imag : i \in 1..Len(qnm_results.items)})
    ELSE -1000000

\* lines 41-44: the mode check runs and finds a growing mode
UnstableMode(qnm_results) == Truthy(qnm_results) /\ MaxGrowth(qnm_results) > 0

\* mutant of the reasons: the divergence filter sets its flag without a reason
ReasonsWithoutDivergence(ghost_instability, wrong_sign_kinetic, divergent_background, unstable) ==
    (IF ghost_instability THEN <<GhostReason>> ELSE <<>>)
    \o (IF wrong_sign_kinetic THEN <<WrongSignReason>> ELSE <<>>)
    \o (IF unstable THEN <<UnstableReason>> ELSE <<>>)

\* lines 25-45: the reasons appended, in the order of the checks
Reasons(ghost_instability, wrong_sign_kinetic, divergent_background, unstable) ==
    (IF ghost_instability THEN <<GhostReason>> ELSE <<>>)
    \o (IF wrong_sign_kinetic THEN <<WrongSignReason>> ELSE <<>>)
    \o (IF divergent_background THEN <<DivergenceReason>> ELSE <<>>)
    \o (IF unstable THEN <<UnstableReason>> ELSE <<>>)

\* evaluate_constraints(run_id, theory, qnm_results)
evaluate_constraints(run_id, theory, qnm_results) ==
    LET kinetic == KineticCoefficient(theory)
        ghost_instability == GhostInstability(kinetic)
        wrong_sign_kinetic == WrongSignKinetic(kinetic)
        alpha == _get_parameter(theory, <<"alpha">>, 0)
        beta == _get_parameter(theory, <<"beta">>, 0)
        divergent_background == DivergentBackground(alpha, beta)
        reasons == Reasons(ghost_instability, wrong_sign_kinetic, divergent_background,
                           UnstableMode(qnm_results))
        base_metrics == [kinetic_coeff |-> kinetic, alpha |-> alpha, beta |-> beta]
    IN [run_id |-> run_id,
        is_valid |-> Len(reasons) = 0,
        ghost_instability |-> ghost_instability,
        wrong_sign_kinetic |-> wrong_sign_kinetic,
        divergent_background |-> divergent_background,
        reasons |-> reasons,
        metrics |-> IF Truthy(qnm_results)
                    THEN DictUpdate(base_metrics, [max_omega_imag |-> MaxGrowth(qnm_results)])
                    ELSE base_metrics]


(***************************************************************************)
(* utils.py                                                                *)
(*                                                                         *)
(* A Python value handed to json.dumps is a record with its kind: an int   *)
(* (num), a str, a list (elems in order) or a dict, whose items are the    *)
(* <<key, value>> pairs in insertion order, the order json.dumps walks     *)
(* them in when it does not sort.                                          *)
(***************************************************************************)
PyNum(v) == [kind |-> "num", num |-> v]
PyStr(v) == [kind |-> "str", str |-> v]
PyList(elems) == [kind |-> "list", elems |-> elems]
PyDict(items) == [kind |-> "dict", items |-> items]

\* the keys of the dicts serialized, in the order Python compares str
KeyOrder == <<"alpha", "beta", "name", "parameters">>

\* the keys of a dict
KeysOf(d) == {d.items[i][1] : i \in 1..Len(d.items)}

\* the item of a dict with the given key
ItemOf(d, key) == d.items[CHOOSE i \in 1..Len(d.items) : d.items[i][1] = key]

\* mutant of sort_keys=True: the items are written in insertion order
SortedItemsInsertionOrder(d) == d.items

\* sort_keys=True: the items of a dict sorted by key
SortedItems(d) ==
    LET keys == SelectSeq(KeyOrder, LAMBDA k : k \in KeysOf(d))
    IN [i \in 1..Len(keys) |-> ItemOf(d, keys[i])]

\* ",".join(parts)
RECURSIVE JoinComma(_)
JoinComma(parts) ==
    IF parts = <<>> THEN ""
    ELSE IF Len(parts) = 1 THEN parts[1]
    ELSE parts[1] \o "," \o JoinComma(Tail(parts))

\* canonical_json(data): json.dumps(data, sort_keys=True, separators=(",", ":"),
\* ensure_ascii=True); the strings serialized are ASCII without quotes or
\* backslashes, so they are written as they are between double quotes
RECURSIVE canonical_json(_)
canonical_json(data) ==
    IF data.kind = "num" THEN ToString(data.num)
    ELSE IF data.kind = "str" THEN "\"" \o data.str \o "\""
    ELSE IF data.kind = "list"
    THEN "[" \o JoinComma([i \in 1..Len(data.elems) |-> canonical_json(data.elems[i])]) \o "]"
    ELSE LET items == SortedItems(data)
         IN "{" \o JoinComma([i \in 1..Len(items) |->
                       "\"" \o items[i][1] \o "\":" \o canonical_json(items[i][2])]) \o "}"

\* stable_hash(data): the sha256 hex digest of the canonical JSON; a digest is
\* represented by the text digested (distinct texts of the model are taken to
\* have distinct digests)
stable_hash(data) == [sha256 |-> canonical_json(data)]

(***************************************************************************)
(* explore.py                                                              *)
(***************************************************************************)
\* df.get(column, pd.Series([0.0])).max() over the rows of a non-empty frame
ColumnMax(df, column) ==
    IF column \in DOMAIN df[1] THEN MaxOf({df[i][column] : i \in 1..Len(df)}) ELSE 0

\* summarize_scan(df); a data frame is the sequence of its rows, each row a
\* record over the frame's columns
summarize_scan(df) ==
    IF Len(df) = 0
    THEN [rows |-> 0, valid_rows |-> 0]
    ELSE LET valid_count ==
                 IF "constraints_valid" \in DOMAIN df[1]
                 THEN Cardinality({i \in 1..Len(df) : df[i]["constraints_valid"]})
                 ELSE Len(df)
         IN [rows |-> Len(df),
             valid_rows |-> valid_count,
             invalid_rows |-> Len(df) - valid_count,
             max_disagreement_real |-> ColumnMax(df, "disagreement_real"),
             max_disagreement_imag |-> ColumnMax(df, "disagreement_imag")]

(***************************************************************************)
(* config.py, storage.py, artifacts.py, paper.py                           *)
(***************************************************************************)
\* Settings.artifact_root when PHYSAI_ARTIFACT_ROOT is not set
ArtifactRoot == "artifacts"

\* values of Settings.artifact_root: the default, or a configured directory
ArtifactRoots == {ArtifactRoot, "out"}

\* environment: Settings.artifact_root, read from PHYSAI_ARTIFACT_ROOT
VARIABLE artifact_root

\* the tables of storage.metadata
Tables ==
    {"theories", "derivations", "background_runs", "perturb_runs", "qnm_runs",
     "scan_jobs", "constraint_reports", "novelty_reports", "paper_builds", "events"}

\* init_db on a fresh database: every table exists and is empty
EmptyLedger == [t \in Tables |-> <<>>]

\* the columns of each table but the autoincrement id; all are nullable=False
Columns ==
    [t \in Tables |->
        IF t = "theories" THEN {"run_id", "name", "payload"}
        ELSE IF t = "derivations" THEN {"run_id", "stage", "canonical_hash", "payload"}
        ELSE IF t = "qnm_runs" THEN {"run_id", "method", "omega_real", "omega_imag", "payload"}
        ELSE IF t = "scan_jobs" THEN {"run_id", "name", "payload"}
        ELSE IF t = "constraint_reports" THEN {"run_id", "is_valid", "payload"}
        ELSE IF t = "novelty_reports" THEN {"run_id", "novelty_score", "payload"}
        ELSE IF t = "events" THEN {"run_id", "stage", "status", "message", "payload"}
        ELSE {"run_id", "payload"}]

\* mutant of save_record: a row equal to one the table holds is not inserted
\* a second time
save_recordOnce(engine, table, payload) ==
    IF \E i \in 1..Len(engine[table]) : engine[table][i] = payload
    THEN engine
    ELSE [engine EXCEPT ![table] = Append(@, payload)]

\* save_record(engine, table, payload): one INSERT in its own transaction; the
\* autoincrement id of a row is its position in the table
save_record(engine, table, payload) == [engine EXCEPT ![table] = Append(@, payload)]

\* artifact_path(run_id, stage, filename): a path is the sequence of its parts
artifact_path(run_id, stage, filename) == <<artifact_root, run_id, stage, filename>>

\* write_dataframe(df, preferred_path): the path written (parquet, or the csv
\* fallback when the parquet engine is missing)
write_dataframe(preferred_path, parquet_ok) ==
    IF parquet_ok THEN preferred_path
    ELSE [preferred_path EXCEPT ![Len(preferred_path)] = "qnm_spectrum.csv"]

\* mutant of build_paper: neither format is written and the dict is empty
build_paperNothing(out_dir) == <<>>

\* build_paper(spec, ...) with include_latex and include_markdown: the files
\* written, in the order of the returned dict (latex, bib, markdown)
build_paper(out_dir) ==
    <<Append(out_dir, "paper.tex"), Append(out_dir, "refs.bib"), Append(out_dir, "paper.md")>>

(***************************************************************************)
(* proposal.py                                                             *)
(***************************************************************************)
\* ProposalSpec.model_validate(raw): name and action are required fields
ProposalSpecValidates(raw) == {"name", "action"} \subseteq DOMAIN raw

\* ProposalSpec.model_validate(raw) for a valid raw: the defaults are filled in
ProposalSpecOf(raw) ==
    [name |-> raw.name,
     action |-> raw.action,
     parameters |-> DictGet(raw, "parameters", EmptyDict),
     rationale |-> DictGet(raw, "rationale", "")]

\* ProposalGenerator._fallback(seed_theory, count)
_fallback(seed_theory, count) ==
    LET base == seed_theory.action
        candidates ==
            <<[name |-> seed_theory.name \o "_alphaR2",
               action |-> Append(base, "alpha*R**2"),
               parameters |-> [alpha |-> 10],
               rationale |-> "Leading quadratic curvature correction."],
              [name |-> seed_theory.name \o "_betaR3",
               action |-> Append(base, "beta*R**3"),
               parameters |-> [beta |-> 1],
               rationale |-> "Controlled cubic curvature deformation."],
              [name |-> seed_theory.name \o "_zetaRicci2",
               action |-> Append(base, "zeta*Ricci2"),
               parameters |-> [zeta |-> 20],
               rationale |-> "Ricci contraction inspired higher-derivative term."]>>
    IN SliceTo(candidates, count)

\* ProposalGenerator._try_generate_llm(seed_theory, count).  reply.ok is false
\* when the key or the client is missing, when the call raises or when the
\* content is not JSON; otherwise reply.proposals is parsed["proposals"].
_try_generate_llm(seed_theory, count, reply) ==
    IF ~reply.ok THEN <<>>
    ELSE LET taken == SliceTo(reply.proposals, count)
         IN IF \A i \in 1..Len(taken) : ProposalSpecValidates(taken[i])
            THEN [i \in 1..Len(taken) |-> ProposalSpecOf(taken[i])]
            ELSE <<>>

\* ProposalGenerator.generate(seed_theory, count)
generate(enable_llm, seed_theory, count, reply) ==
    IF enable_llm /\ _try_generate_llm(seed_theory, count, reply) # <<>>
    THEN _try_generate_llm(seed_theory, count, reply)
    ELSE _fallback(seed_theory, count)


(***************************************************************************)
(* novelty.py                                                              *)
(***************************************************************************)
\* score_novelty(run_id, hypothesis_text, equations, parameters, corpus).
\* The similarity arithmetic over the fetched corpus is outside the model:
\* the report carries one representative score (in thousandths).
score_novelty(run_id, hypothesis_text, equations, parameters) ==
    [run_id |-> run_id,
     novelty_score |-> 500,
     hypothesis |-> hypothesis_text,
     n_equations |-> Len(equations)]

(***************************************************************************)
(* Inputs: campaign specifications and the environment                     *)
(***************************************************************************)
\* seed theories, each accepted by TheorySpec's validator
SeedTheories ==
    {[name |-> "gr", action |-> <<"R - 2*Lambda">>, parameters |-> EmptyDict],
     [name |-> "fr", action |-> <<"f(R)">>, parameters |-> [mass |-> 250]],
     [name |-> "zeta", action |-> <<"R">>, parameters |-> [zeta |-> -1000]],
     [name |-> "ghost", action |-> <<"R">>, parameters |-> [kinetic_coeff |-> 0]],
     [name |-> "divergent", action |-> <<"R">>, parameters |-> [alpha |-> 150000]],
     [name |-> "massless", action |-> <<"R">>, parameters |-> [mass |-> 0]],
     [name |-> "broken", action |-> <<"(R">>, parameters |-> EmptyDict]}

\* requested proposal counts: CampaignSpec.proposal_count is any int
Counts == (0 - MaxCount) .. MaxCount

\* entries a language model may put in parsed["proposals"]
LlmPool ==
    {[name |-> "llm_ok", action |-> <<"R", "gamma*R**2">>, parameters |-> [alpha |-> 500], rationale |-> "ok"],
     [name |-> "llm_blank", action |-> <<" ">>],
     [name |-> "llm_massless", action |-> <<"R">>, parameters |-> [mass |-> 0]],
     [action |-> <<"R">>]}

\* replies of the language-model path: a failure, or a list of entries
LlmReplies ==
    {[ok |-> FALSE, proposals |-> <<>>]}
    \cup {[ok |-> TRUE, proposals |-> l] : l \in UNION {[1..n -> LlmPool] : n \in 0..MaxLlm}}

\* the campaign specifications: CampaignSpec.model_validate accepted them
Campaigns ==
    [name : {"demo"},
     run_id : {"run1"},
     seed_theory : SeedTheories,
     proposal_count : Counts,
     enable_llm : BOOLEAN,
     max_retries_per_stage : {0, 2}]

(***************************************************************************)
(* orchestrate.py                                                          *)
(***************************************************************************)
VARIABLES
    campaign,             \* the CampaignSpec passed to run_autonomous_campaign
    llm_reply,            \* environment: what the language-model path answers
    reducer,              \* environment: "builtin" (background.py) or "stub"
    pc,                   \* position in run_autonomous_campaign
    proposals,            \* local: the list generate returned
    idx,                  \* position of the for loop in proposals (1-based)
    accepted,             \* local counter
    rejected,             \* local counter
    paper_outputs,        \* local list
    aggregate_scan_rows,  \* local list of spectrum tables
    theory,               \* locals of the loop body
    derivation,
    background,
    perturb,
    qnm_results,
    disagreement,
    constraints,
    novelty,
    ledger,               \* the database: table name -> rows
    files,                \* artifact files written (paths)
    calls,                \* history: collaborator calls and writes, in order
    summary,              \* local
    result,               \* the CampaignResult returned, None before
    error,                \* name of the exception that left the function
    earlier,              \* the invocations that ended before this one, in order
    args,                 \* a function called on its own: its name and arguments
    ret,                  \* what that function returned, None before
    suspended,            \* a concurrent invocation that is not running: its locals
    store                 \* the database as committed, when invocations share it

inputs == <<campaign, llm_reply, reducer, artifact_root>>
counters == <<accepted, rejected, paper_outputs, aggregate_scan_rows>>
locals == <<theory, derivation, background, perturb, qnm_results, disagreement, constraints, novelty>>
outcome == <<summary, result, error>>
\* state outside the invocation in progress
outside == <<earlier, args, ret, suspended, store>>
vars == <<inputs, outside, pc, proposals, idx, counters, locals, ledger, files, calls, outcome>>

\* an entry of the call history: the function, the proposal it was called for
\* (0 outside the loop), a string (an argument, or the outcome of the call)
\* and a number (an argument, or a numeric result)
Call(fn, cand, arg, num) == [fn |-> fn, cand |-> cand, arg |-> arg, num |-> num]

\* how the history names the consistency record a reducer returned
ConsistencyTag(consistency) ==
    IF "square_system" \notin DOMAIN consistency THEN "missing"
    ELSE IF consistency["square_system"] THEN "square"
    ELSE "not_square"

\* mutant of the method order: WKB is solved first
MethodsWkbFirst == <<WKB, SHOOTING, SPECTRAL>>

\* the fixed method order of the QNM loop
Methods == <<SHOOTING, WKB, SPECTRAL>>

\* str(list_of_str) of Python: "['a', 'b']"
RECURSIVE ReprItems(_)
ReprItems(items) ==
    IF Len(items) = 0 THEN ""
    ELSE IF Len(items) = 1 THEN "'" \o items[1] \o "'"
    ELSE "'" \o items[1] \o "', " \o ReprItems(Tail(items))

ReprList(items) == "[" \o ReprItems(items) \o "]"

\* mutant of _log_event: the run_id of the log's first row is written again
_log_eventFirstRunId(engine, run_id, stage, status, message, payload) ==
    LET known == IF engine["events"] # <<>> THEN engine["events"][1].run_id ELSE run_id
        event == [run_id |-> known, stage |-> stage, status |-> status, message |-> message]
    IN save_record(engine, "events",
           [run_id |-> event.run_id,
            stage |-> event.stage,
            status |-> event.status,
            message |-> event.message,
            payload |-> IF payload = None \/ DOMAIN payload = {} THEN event ELSE payload])

\* mutant of line 61: the payload passed in is ignored
_log_eventOwnPayload(engine, run_id, stage, status, message, payload) ==
    LET event == [run_id |-> run_id, stage |-> stage, status |-> status, message |-> message]
    IN save_record(engine, "events",
           [run_id |-> event.run_id,
            stage |-> event.stage,
            status |-> event.status,
            message |-> event.message,
            payload |-> event])

\* _log_event(engine, run_id, stage, status, message, payload): payload None
\* (or empty) is replaced by the dump of the EventRecord; the timestamp of
\* the record is left out
_log_event(engine, run_id, stage, status, message, payload) ==
    LET event == [run_id |-> run_id, stage |-> stage, status |-> status, message |-> message]
    IN save_record(engine, "events",
           [run_id |-> event.run_id,
            stage |-> event.stage,
            status |-> event.status,
            message |-> event.message,
            payload |-> IF payload = None \/ DOMAIN payload = {} THEN event ELSE payload])

\* mutant of line 67: model_copy(deep=False) shares the parameters dict with
\* the seed, so the update of line 70 reaches the seed
SeedAfterShallowCopy(seed, name, action, parameters) ==
    [seed EXCEPT !.parameters = DictUpdate(seed.parameters, parameters)]

\* the seed object after _proposal_to_theory(seed, name, action, parameters)
\* returned: line 67 copies it deeply, so the assignments of lines 68-69 and
\* the update of line 70 reach the copy only
SeedAfter(seed, name, action, parameters) == seed

\* _proposal_to_theory(seed, name, action, parameters): a deep copy of the
\* seed with name and action assigned (assignment does not run the validator)
\* and the parameters merged
_proposal_to_theory(seed, name, action, parameters) ==
    [seed EXCEPT !.name = name,
                 !.action = action,
                 !.parameters = DictUpdate(seed.parameters, parameters)]

Init ==
    /\ campaign \in Campaigns
    /\ llm_reply \in IF campaign.enable_llm THEN LlmReplies ELSE {[ok |-> FALSE, proposals |-> <<>>]}
    /\ reducer \in IF campaign.enable_llm THEN {"builtin"} ELSE {"builtin", "stub"}
    /\ artifact_root \in IF campaign.enable_llm THEN {ArtifactRoot} ELSE ArtifactRoots
    /\ pc = "start"
    /\ proposals = <<>>
    /\ idx = 0
    /\ accepted = 0
    /\ rejected = 0
    /\ paper_outputs = <<>>
    /\ aggregate_scan_rows = <<>>
    /\ theory = None
    /\ derivation = None
    /\ background = None
    /\ perturb = None
    /\ qnm_results = <<>>
    /\ disagreement = None
    /\ constraints = None
    /\ novelty = None
    /\ ledger = EmptyLedger
    /\ files = {}
    /\ calls = <<>>
    /\ summary = None
    /\ result = None
    /\ error = NoError
    /\ earlier = <<>>
    /\ args = None
    /\ ret = None
    /\ suspended = None
    /\ store = EmptyLedger

\* lines 75-84: open the ledger, log propose/started, generate the proposals
StartCampaign ==
    /\ pc = "start"
    /\ ledger' = _log_event(ledger, campaign.run_id, "propose", "started",
                            "Campaign " \o campaign.name \o " started.", None)
    /\ proposals' = generate(campaign.enable_llm, campaign.seed_theory,
                             campaign.proposal_count, llm_reply)
    /\ idx' = 1
    /\ accepted' = 0
    /\ rejected' = 0
    /\ paper_outputs' = <<>>
    /\ aggregate_scan_rows' = <<>>
    /\ calls' = calls \o <<Call("init_db", 0, "", 0),
                           Call("_log_event", 0, "propose/started", 0),
                           Call("generate", 0, "", campaign.proposal_count),
                           Call("fetch_arxiv_records", 0, "", 0)>>
    /\ pc' = "loop"
    /\ UNCHANGED <<inputs, outside, locals, files, outcome>>

\* mutant of the loop: the proposals are taken from the end of the list
CurrentProposalFromEnd == proposals[Len(proposals) + 1 - idx]

\* line 86: the proposal the for loop is at
CurrentProposal == proposals[idx]

\* lines 86-102: next proposal, build the candidate, theories row, validate/ok
NextProposal ==
    /\ pc = "loop"
    /\ idx <= Len(proposals)
    /\ LET proposal == CurrentProposal
           t == _proposal_to_theory(campaign.seed_theory, proposal.name,
                                    proposal.action, proposal.parameters)
       IN /\ theory' = t
          /\ campaign' = [campaign EXCEPT !.seed_theory =
                              SeedAfter(campaign.seed_theory, proposal.name,
                                        proposal.action, proposal.parameters)]
          /\ ledger' = _log_event(
                 save_record(ledger, "theories",
                     [run_id |-> campaign.run_id, name |-> t.name, payload |-> t]),
                 campaign.run_id, "validate", "ok",
                 "Accepted proposal payload: " \o proposal.name, None)
    /\ calls' = calls \o <<Call("_proposal_to_theory", idx, "", 0),
                           Call("save_record", idx, "theories", 0),
                           Call("_log_event", idx, "validate/ok", 0)>>
    /\ pc' = "derive"
    /\ UNCHANGED <<llm_reply, reducer, artifact_root, outside, proposals, idx, counters, derivation, background, perturb,
                   qnm_results, disagreement, constraints, novelty, files, outcome>>


\* mutant of the failing derivation: the call is tried again while fewer than
\* max_retries_per_stage attempts have failed
DeriveRaisesRetried ==
    /\ pc = "derive"
    /\ CompileRaises(theory)
    /\ calls' = Append(calls, Call("derive_field_equations", idx, "raised", 0))
    /\ LET failed == Cardinality({i \in 1..Len(calls) :
                          /\ calls[i].cand = idx
                          /\ calls[i].fn = "derive_field_equations"
                          /\ calls[i].arg = "raised"})
       IN IF failed < campaign.max_retries_per_stage
          THEN UNCHANGED <<pc, error>>
          ELSE error' = "SympifyError" /\ pc' = "raised"
    /\ UNCHANGED <<inputs, outside, proposals, idx, counters, locals, ledger, files, summary, result>>

\* line 104 when compile_action raises: the exception leaves the function
DeriveRaises ==
    /\ pc = "derive"
    /\ CompileRaises(theory)
    /\ calls' = Append(calls, Call("derive_field_equations", idx, "raised", 0))
    /\ error' = "SympifyError"
    /\ pc' = "raised"
    /\ UNCHANGED <<inputs, outside, proposals, idx, counters, locals, ledger, files, summary, result>>

\* lines 104-120: derive the field equations, derivations row, eom artifact
DeriveFieldEquations ==
    /\ pc = "derive"
    /\ ~CompileRaises(theory)
    /\ LET d == derive_field_equations(theory, campaign.run_id)
       IN /\ derivation' = d
          /\ ledger' = save_record(ledger, "derivations",
                 [run_id |-> campaign.run_id, stage |-> "eom",
                  canonical_hash |-> d.canonical_hash, payload |-> d])
    /\ files' = files \cup {artifact_path(campaign.run_id, "derive", theory.name \o "_eom.json")}
    /\ calls' = calls \o <<Call("derive_field_equations", idx, "", 0),
                           Call("save_record", idx, "derivations", 0),
                           Call("write_json_artifact", idx, "derive", 0)>>
    /\ pc' = "background"
    /\ UNCHANGED <<inputs, outside, proposals, idx, counters, theory, background, perturb,
                   qnm_results, disagreement, constraints, novelty, outcome>>

\* what the BackgroundReducer bound to the orchestrator may return
ReducerResults ==
    IF reducer = "builtin"
    THEN {reduce_to_background_odes(theory, derivation, campaign.run_id)}
    ELSE {StubBackground(theory, campaign.run_id, c) : c \in StubConsistencies}

\* line 122: reduce to the background system
ReduceBackground ==
    /\ pc = "background"
    /\ background' \in ReducerResults
    /\ calls' = Append(calls, Call("reduce_to_background_odes", idx,
                                   ConsistencyTag(background'.consistency), 0))
    /\ pc' = "background_gate"
    /\ UNCHANGED <<inputs, outside, proposals, idx, counters, theory, derivation, perturb,
                   qnm_results, disagreement, constraints, novelty, ledger, files, outcome>>

\* mutant of the gate condition: a missing square_system key counts as square
BackgroundInconsistentDefaultTrue == ~DictGet(background.consistency, "square_system", TRUE)

\* line 123: the condition of the background gate
BackgroundInconsistent == ~DictGet(background.consistency, "square_system", FALSE)

\* lines 123-126: the system is not square: count, log, next proposal
BackgroundRejected ==
    /\ pc = "background_gate"
    /\ BackgroundInconsistent
    /\ rejected' = rejected + 1
    /\ ledger' = _log_event(ledger, campaign.run_id, "background", "rejected",
                            "Inconsistent system: " \o theory.name, None)
    /\ calls' = Append(calls, Call("_log_event", idx, "background/rejected", 0))
    /\ idx' = idx + 1
    /\ pc' = "loop"
    /\ UNCHANGED <<inputs, outside, proposals, accepted, paper_outputs, aggregate_scan_rows,
                   locals, files, outcome>>

\* lines 128-131: master equation, its artifact, empty result list
DeriveMasterEquation ==
    /\ pc = "background_gate"
    /\ ~BackgroundInconsistent
    /\ perturb' = derive_master_equation(background, campaign.run_id)
    /\ files' = files \cup {artifact_path(campaign.run_id, "perturb", theory.name \o "_master.txt")}
    /\ qnm_results' = <<>>
    /\ calls' = calls \o <<Call("derive_master_equation", idx, "", 0),
                           Call("write_artifact", idx, "perturb", 0)>>
    /\ pc' = "qnm"
    /\ UNCHANGED <<inputs, outside, proposals, idx, counters, theory, derivation, background,
                   disagreement, constraints, novelty, ledger, outcome>>

\* line 133: QNMRunConfig(method=method, l=2, n=0, mass=parameters.get("mass", 1.0))
QnmConfig(method) ==
    [method |-> method, l |-> 2, n |-> 0, mass |-> DictGet(theory.parameters, "mass", 1000)]

\* the method the QNM loop is at
CurrentMethod == Methods[Len(qnm_results) + 1]

\* line 134 when eikonal_seed raises: the exception leaves the function
SolveQnmRaises ==
    /\ pc = "qnm"
    /\ EikonalRaises(QnmConfig(CurrentMethod).mass)
    /\ calls' = Append(calls, Call("solve_qnm", idx, "raised", QnmConfig(CurrentMethod).mass))
    /\ error' = "ValueError"
    /\ pc' = "raised"
    /\ UNCHANGED <<inputs, outside, proposals, idx, counters, locals, ledger, files, summary, result>>

\* lines 132-146: one turn of the method loop: solve, append, qnm_runs row
SolveQnm ==
    /\ pc = "qnm"
    /\ ~EikonalRaises(QnmConfig(CurrentMethod).mass)
    /\ LET method == CurrentMethod
           qnm == solve_qnm(QnmConfig(method), campaign.run_id, method)
       IN /\ qnm_results' = Append(qnm_results, qnm)
          /\ ledger' = save_record(ledger, "qnm_runs",
                 [run_id |-> campaign.run_id, method |-> qnm.method,
                  omega_real |-> qnm.omega_real, omega_imag |-> qnm.omega_imag,
                  payload |-> qnm])
          /\ calls' = calls \o <<Call("solve_qnm", idx, method, QnmConfig(method).mass),
                                 Call("save_record", idx, "qnm_runs", 0)>>
    /\ pc' = IF Len(qnm_results) + 1 = Len(Methods) THEN "constraints" ELSE "qnm"
    /\ UNCHANGED <<inputs, outside, proposals, idx, counters, theory, derivation, background,
                   perturb, disagreement, constraints, novelty, files, outcome>>

\* lines 148-158: consensus report, constraint verdict, constraint_reports row
EvaluateConstraints ==
    /\ pc = "constraints"
    /\ disagreement' = compare_methods(qnm_results, DefaultToleranceMicro)
    /\ LET c == evaluate_constraints(campaign.run_id, theory, ListOf(qnm_results))
       IN /\ constraints' = c
          /\ ledger' = save_record(ledger, "constraint_reports",
                 [run_id |-> campaign.run_id, is_valid |-> c.is_valid, payload |-> c])
    /\ calls' = calls \o <<Call("compare_methods", idx,
                                IF disagreement'.is_consistent THEN "consistent" ELSE "inconsistent",
                                disagreement'.max_abs_delta_real),
                           Call("evaluate_constraints", idx,
                                IF constraints'.is_valid THEN "valid" ELSE "invalid",
                                Len(qnm_results)),
                           Call("save_record", idx, "constraint_reports", 0)>>
    /\ pc' = "constraints_gate"
    /\ UNCHANGED <<inputs, outside, proposals, idx, counters, theory, derivation, background,
                   perturb, qnm_results, novelty, files, outcome>>

\* mutant of the gate condition: an inconsistent consensus report rejects too
ConstraintsInvalidOrInconsistent == ~constraints.is_valid \/ ~disagreement.is_consistent

\* mutant of the gate condition: only the ghost flag of the verdict is read
ConstraintsInvalidGhostOnly == constraints.ghost_instability

\* mutant of the gate condition: a candidate whose name already has a
\* paper_builds row in the database is turned down as a duplicate
ConstraintsInvalidOrBuiltBefore ==
    \/ ~constraints.is_valid
    \/ \E i \in 1..Len(ledger["paper_builds"]) :
           ledger["paper_builds"][i].payload.theory_name = theory.name

\* mutant of the gate condition: no verdict rejects
ConstraintsInvalidNever == FALSE

\* line 159: the condition of the constraint gate
ConstraintsInvalid == ~constraints.is_valid

\* mutant of the rejecting branch: the rejection is raised as an error
ConstraintsRejectedAborts ==
    /\ pc = "constraints_gate"
    /\ ConstraintsInvalid
    /\ rejected' = rejected + 1
    /\ ledger' = _log_event(ledger, campaign.run_id, "constraints", "rejected",
                            theory.name \o " rejected by physics filters: "
                                \o ReprList(constraints.reasons), None)
    /\ calls' = Append(calls, Call("_log_event", idx, "constraints/rejected", 0))
    /\ error' = "ConstraintInvalid"
    /\ pc' = "raised"
    /\ UNCHANGED <<inputs, outside, proposals, idx, accepted, paper_outputs, aggregate_scan_rows,
                   locals, files, summary, result>>

\* mutant of the rejecting branch: the continue is missing, so the rest of
\* the loop body runs for the rejected candidate
ConstraintsRejectedFallsThrough ==
    /\ pc = "constraints_gate"
    /\ ConstraintsInvalid
    /\ rejected' = rejected + 1
    /\ ledger' = _log_event(ledger, campaign.run_id, "constraints", "rejected",
                            theory.name \o " rejected by physics filters: "
                                \o ReprList(constraints.reasons), None)
    /\ calls' = Append(calls, Call("_log_event", idx, "constraints/rejected", 0))
    /\ pc' = "paper"
    /\ UNCHANGED <<inputs, outside, proposals, idx, accepted, paper_outputs, aggregate_scan_rows,
                   locals, files, outcome>>

\* lines 159-168: the verdict is invalid: count, log the reasons, next proposal
ConstraintsRejected ==
    /\ pc = "constraints_gate"
    /\ ConstraintsInvalid
    /\ rejected' = rejected + 1
    /\ ledger' = _log_event(ledger, campaign.run_id, "constraints", "rejected",
                            theory.name \o " rejected by physics filters: "
                                \o ReprList(constraints.reasons), None)
    /\ calls' = Append(calls, Call("_log_event", idx, "constraints/rejected", 0))
    /\ idx' = idx + 1
    /\ pc' = "loop"
    /\ UNCHANGED <<inputs, outside, proposals, accepted, paper_outputs, aggregate_scan_rows,
                   locals, files, outcome>>

\* lines 170-174: the spectrum table of the candidate with its three added columns
CandidateTable ==
    LET table == spectrum_table(qnm_results)
    IN [i \in 1..Len(qnm_results) |->
          DictUpdate(table[i],
              [theory_name |-> theory.name,
               method_disagreement_real |-> disagreement.max_abs_delta_real,
               method_disagreement_imag |-> disagreement.max_abs_delta_imag])]

\* lines 170-191: table appended to the aggregate, novelty report and its row
ScoreNovelty ==
    /\ pc = "constraints_gate"
    /\ ~ConstraintsInvalid
    /\ aggregate_scan_rows' = Append(aggregate_scan_rows, CandidateTable)
    /\ LET nv == score_novelty(campaign.run_id,
                     theory.name \o ": " \o CurrentProposal.rationale,
                     derivation.equations \o <<perturb.master_equation, perturb.effective_potential>>,
                     theory.parameters)
       IN /\ novelty' = nv
          /\ ledger' = save_record(ledger, "novelty_reports",
                 [run_id |-> campaign.run_id, novelty_score |-> nv.novelty_score, payload |-> nv])
    /\ calls' = calls \o <<Call("spectrum_table", idx, "", 0),
                           Call("score_novelty", idx, "", 0),
                           Call("save_record", idx, "novelty_reports", 0)>>
    /\ pc' = "paper"
    /\ UNCHANGED <<inputs, outside, proposals, idx, accepted, rejected, paper_outputs, theory,
                   derivation, background, perturb, qnm_results, disagreement,
                   constraints, files, outcome>>

\* lines 193-225: build the paper, extend paper_outputs, paper_builds row,
\* count the candidate as accepted, log paper/ok
BuildPaper ==
    /\ pc = "paper"
    /\ LET out_dir == <<"artifacts", campaign.run_id, "paper", theory.name>>
           outputs == build_paper(out_dir)
       IN /\ paper_outputs' = paper_outputs \o outputs
          /\ files' = files \cup Range(outputs)
          /\ ledger' = _log_event(
                 save_record(ledger, "paper_builds",
                     [run_id |-> campaign.run_id,
                      payload |-> [theory_name |-> theory.name, outputs |-> outputs]]),
                 campaign.run_id, "paper", "ok",
                 "Built paper outputs for " \o theory.name, None)
    /\ accepted' = accepted + 1
    /\ calls' = calls \o <<Call("build_paper", idx, "", 0),
                           Call("save_record", idx, "paper_builds", 0),
                           Call("_log_event", idx, "paper/ok", 0)>>
    /\ idx' = idx + 1
    /\ pc' = "loop"
    /\ UNCHANGED <<inputs, outside, proposals, rejected, aggregate_scan_rows, locals, outcome>>

\* pd.concat(aggregate_scan_rows, ignore_index=True)
RECURSIVE Concat(_)
Concat(tables) == IF tables = <<>> THEN <<>> ELSE Head(tables) \o Concat(Tail(tables))

\* lines 227-235: the summary of the campaign; parquet_ok tells whether the
\* parquet engine could write the merged frame
CampaignSummary(parquet_ok) ==
    IF aggregate_scan_rows # <<>>
    THEN LET merged == Concat(aggregate_scan_rows)
             merged_path == write_dataframe(
                 <<"artifacts", campaign.run_id, "scan", "qnm_spectrum.parquet">>, parquet_ok)
         IN DictUpdate(summarize_scan(merged), [spectrum_file |-> merged_path])
    ELSE [rows |-> 0, valid_rows |-> 0]

\* lines 227-251: after the loop: summary, finalize/ok event, CampaignResult
Finalize ==
    /\ pc = "loop"
    /\ idx > Len(proposals)
    /\ \E parquet_ok \in BOOLEAN :
        LET sm == CampaignSummary(parquet_ok)
        IN /\ summary' = sm
           /\ files' = IF aggregate_scan_rows # <<>> THEN files \cup {sm.spectrum_file} ELSE files
           /\ ledger' = _log_event(ledger, campaign.run_id, "finalize", "ok",
                  "Campaign finished accepted=" \o ToString(accepted)
                      \o " rejected=" \o ToString(rejected), sm)
           /\ result' = [run_id |-> campaign.run_id,
                         accepted_theories |-> accepted,
                         rejected_theories |-> rejected,
                         paper_outputs |-> paper_outputs,
                         summary |-> sm]
    /\ calls' = Append(calls, Call("_log_event", 0, "finalize/ok", 0))
    /\ pc' = "done"
    /\ UNCHANGED <<inputs, outside, proposals, idx, counters, locals, error>>

Next ==
    \/ StartCampaign
    \/ NextProposal
    \/ DeriveRaises
    \/ DeriveFieldEquations
    \/ ReduceBackground
    \/ BackgroundRejected
    \/ DeriveMasterEquation
    \/ SolveQnmRaises
    \/ SolveQnm
    \/ EvaluateConstraints
    \/ ConstraintsRejected
    \/ ScoreNovelty
    \/ BuildPaper
    \/ Finalize

Spec == Init /\ [][Next]_vars

\* the interpreter runs the function to its end: no step is postponed for ever
FairSpec == Spec /\ WF_vars(Next)

(***************************************************************************)
(* cli.py: several invocations on one database                             *)
(***************************************************************************)
\* most invocations of run_autonomous_campaign on the database
MaxRuns == 2

\* CampaignSpec.run_id is any string: two of them
RunIds == {"run1", "run2"}

\* seeds whose fallback candidates are accepted (gr), partly rejected (zeta),
\* or make solve_qnm (massless) or derive_field_equations (broken) raise
RerunSeeds == {t \in SeedTheories : t.name \in {"gr", "zeta", "massless", "broken"}}

\* campaign files of the deterministic proposal path
RerunCampaigns ==
    [name : {"demo"},
     run_id : RunIds,
     seed_theory : RerunSeeds,
     proposal_count : {1, 3},
     enable_llm : {FALSE},
     max_retries_per_stage : {2}]

\* the first invocation, on a fresh database, with the built-in collaborators
RerunInit ==
    /\ campaign \in RerunCampaigns
    /\ llm_reply = [ok |-> FALSE, proposals |-> <<>>]
    /\ artifact_root = ArtifactRoot
    /\ reducer = "builtin"
    /\ pc = "start"
    /\ proposals = <<>>
    /\ idx = 0
    /\ accepted = 0
    /\ rejected = 0
    /\ paper_outputs = <<>>
    /\ aggregate_scan_rows = <<>>
    /\ theory = None
    /\ derivation = None
    /\ background = None
    /\ perturb = None
    /\ qnm_results = <<>>
    /\ disagreement = None
    /\ constraints = None
    /\ novelty = None
    /\ ledger = EmptyLedger
    /\ files = {}
    /\ calls = <<>>
    /\ summary = None
    /\ result = None
    /\ error = NoError
    /\ earlier = <<>>
    /\ args = None
    /\ ret = None
    /\ suspended = None
    /\ store = EmptyLedger

\* what is known of the invocation in progress once it has ended: its
\* campaign, how it ended, and the size of every table when it ended
CurrentRun ==
    [campaign |-> campaign,
     result |-> result,
     error |-> error,
     rows |-> [t \in Tables |-> Len(ledger[t])]]

\* orchestrate_autonomous is run again after the previous invocation has
\* returned or failed: a campaign file is loaded and validated and
\* run_autonomous_campaign starts with fresh locals; the database and the
\* artifact directory are the ones the earlier invocations left
Rerun ==
    /\ pc \in {"done", "raised"}
    /\ Len(earlier) + 1 < MaxRuns
    /\ earlier' = Append(earlier, CurrentRun)
    /\ campaign' \in RerunCampaigns
    /\ pc' = "start"
    /\ proposals' = <<>>
    /\ idx' = 0
    /\ accepted' = 0
    /\ rejected' = 0
    /\ paper_outputs' = <<>>
    /\ aggregate_scan_rows' = <<>>
    /\ theory' = None
    /\ derivation' = None
    /\ background' = None
    /\ perturb' = None
    /\ qnm_results' = <<>>
    /\ disagreement' = None
    /\ constraints' = None
    /\ novelty' = None
    /\ calls' = <<>>
    /\ summary' = None
    /\ result' = None
    /\ error' = NoError
    /\ UNCHANGED <<llm_reply, reducer, artifact_root, args, ret, suspended, store, ledger, files>>

\* the steps of an invocation with the built-in reducer, whose systems are
\* all square (the rejecting branch of the background gate is not entered),
\* and the start of the next invocation
RerunNext ==
    \/ StartCampaign
    \/ NextProposal
    \/ DeriveRaises
    \/ DeriveFieldEquations
    \/ ReduceBackground
    \/ DeriveMasterEquation
    \/ SolveQnmRaises
    \/ SolveQnm
    \/ EvaluateConstraints
    \/ ConstraintsRejected
    \/ ScoreNovelty
    \/ BuildPaper
    \/ Finalize
    \/ Rerun

RerunSpec == RerunInit /\ [][RerunNext]_vars


(***************************************************************************)
(* Two invocations at the same time on one database                        *)
(*                                                                         *)
(* Each invocation is a process of its own with its own locals; the two    *)
(* share the database file and the artifact directory.  The variables of   *)
(* run_autonomous_campaign hold the locals of the process that is running  *)
(* and suspended those of the other; Switch is the scheduler.  Here ledger *)
(* holds the rows the running process has passed to save_record, table by  *)
(* table, and store the rows committed to the database: an insert executed *)
(* inside `with engine.begin()` is committed when the block is left, and   *)
(* save_record returns only after that.                                    *)
(***************************************************************************)
\* seed theories of the concurrent campaigns: accepted, rejected by the
\* constraints, failing in the derivation, failing in the QNM solver
ConcurrentSeeds == {t \in SeedTheories : t.name \in {"gr", "zeta", "broken", "massless"}}

\* campaign files of the deterministic proposal path for the given run_id
ConcurrentCampaigns(run_id) ==
    [name : {"demo"},
     run_id : {run_id},
     seed_theory : ConcurrentSeeds,
     proposal_count : {0, 1},
     enable_llm : {FALSE},
     max_retries_per_stage : {2}]

\* the campaigns of the first process: one candidate, which is accepted or
\* rejected by the constraints
LongCampaigns ==
    {c \in ConcurrentCampaigns("run1") :
        c.proposal_count = 1 /\ c.seed_theory.name \in {"gr", "zeta"}}

\* the campaigns of the second process: no candidate, or one whose
\* derivation or QNM solve fails
ShortCampaigns ==
    {c \in ConcurrentCampaigns("run2") :
        \/ c.proposal_count = 0 /\ c.seed_theory.name = "gr"
        \/ c.proposal_count = 1 /\ c.seed_theory.name \in {"broken", "massless"}}

\* the locals of the process that is running
Running ==
    [campaign |-> campaign, pc |-> pc, proposals |-> proposals, idx |-> idx,
     accepted |-> accepted, rejected |-> rejected, paper_outputs |-> paper_outputs,
     aggregate_scan_rows |-> aggregate_scan_rows, theory |-> theory,
     derivation |-> derivation, background |-> background, perturb |-> perturb,
     qnm_results |-> qnm_results, disagreement |-> disagreement,
     constraints |-> constraints, novelty |-> novelty, ledger |-> ledger,
     calls |-> calls, summary |-> summary, result |-> result, error |-> error]

\* the locals of a process about to enter run_autonomous_campaign(c)
NotStarted(c) ==
    [campaign |-> c, pc |-> "start", proposals |-> <<>>, idx |-> 0,
     accepted |-> 0, rejected |-> 0, paper_outputs |-> <<>>,
     aggregate_scan_rows |-> <<>>, theory |-> None,
     derivation |-> None, background |-> None, perturb |-> None,
     qnm_results |-> <<>>, disagreement |-> None,
     constraints |-> None, novelty |-> None, ledger |-> EmptyLedger,
     calls |-> <<>>, summary |-> None, result |-> None, error |-> NoError]

\* two processes are about to run campaigns with different run_ids on a fresh
\* database, with the built-in collaborators
ConcurrentInit ==
    /\ campaign \in LongCampaigns
    /\ suspended \in {NotStarted(c) : c \in ShortCampaigns}
    /\ store = EmptyLedger
    /\ llm_reply = [ok |-> FALSE, proposals |-> <<>>]
    /\ artifact_root = ArtifactRoot
    /\ reducer = "builtin"
    /\ pc = "start"
    /\ proposals = <<>>
    /\ idx = 0
    /\ accepted = 0
    /\ rejected = 0
    /\ paper_outputs = <<>>
    /\ aggregate_scan_rows = <<>>
    /\ theory = None
    /\ derivation = None
    /\ background = None
    /\ perturb = None
    /\ qnm_results = <<>>
    /\ disagreement = None
    /\ constraints = None
    /\ novelty = None
    /\ ledger = EmptyLedger
    /\ files = {}
    /\ calls = <<>>
    /\ summary = None
    /\ result = None
    /\ error = NoError
    /\ earlier = <<>>
    /\ args = None
    /\ ret = None

\* the table of an entry of the call history that is an insert
InsertTable(entry) == IF entry.fn = "_log_event" THEN "events" ELSE entry.arg

\* the tables of the inserts a process has executed, in program order
RECURSIVE InsertTables(_)
InsertTables(cs) ==
    IF cs = <<>> THEN <<>>
    ELSE IF Head(cs).fn \in {"save_record", "_log_event"}
         THEN <<InsertTable(Head(cs))>> \o InsertTables(Tail(cs))
         ELSE InsertTables(Tail(cs))

\* the number of rows of a run_id the database holds
CommittedCount(db, run_id) ==
    Cardinality({<<t, i>> \in Tables \X (1..Len(InsertTables(calls)) + Len(InsertTables(suspended.calls))) :
                     i <= Len(db[t]) /\ db[t][i].run_id = run_id})

\* every insert the running process executed has been committed
Flushed == CommittedCount(store, campaign.run_id) = Len(InsertTables(calls))

\* the suspended process has returned or failed, its inserts committed
SuspendedEnded ==
    /\ suspended.pc \in {"done", "raised"}
    /\ CommittedCount(store, suspended.campaign.run_id) = Len(InsertTables(suspended.calls))

\* mutant of the commit: the row takes the place of the table's last row when
\* that row belongs to another run
CommittedOverLast(db, table, row) ==
    IF db[table] # <<>> /\ db[table][Len(db[table])].run_id # row.run_id
    THEN [db EXCEPT ![table] = [@ EXCEPT ![Len(@)] = row]]
    ELSE [db EXCEPT ![table] = Append(@, row)]

\* storage.py line 120-121: leaving `with engine.begin()` commits the insert:
\* the row is added to the table as one whole row, after the rows committed
\* before it
Committed(db, table, row) == [db EXCEPT ![table] = Append(@, row)]

\* the transaction of the oldest insert of the running process that is not
\* committed yet commits
Commit ==
    /\ suspended # None
    /\ ~Flushed
    /\ LET w == InsertTables(calls)
           k == CommittedCount(store, campaign.run_id) + 1
           t == w[k]
           j == Cardinality({i \in 1..k : w[i] = t})
       IN store' = Committed(store, t, ledger[t][j])
    /\ UNCHANGED <<inputs, earlier, args, ret, suspended, pc, proposals, idx, counters,
                   locals, ledger, files, calls, outcome>>

\* the scheduler takes the processor from the running process and gives it
\* to the other.  The two processes share nothing but the database, so only
\* the order of the commits can tell two schedules apart: the switches that
\* matter are those made while an insert of the running process waits for its
\* commit, or after the process ended, and a process that ended is not
\* scheduled again.
Switch ==
    /\ suspended # None
    /\ ~Flushed \/ pc \in {"done", "raised"}
    /\ ~SuspendedEnded
    /\ suspended' = Running
    /\ campaign' = suspended.campaign
    /\ pc' = suspended.pc
    /\ proposals' = suspended.proposals
    /\ idx' = suspended.idx
    /\ accepted' = suspended.accepted
    /\ rejected' = suspended.rejected
    /\ paper_outputs' = suspended.paper_outputs
    /\ aggregate_scan_rows' = suspended.aggregate_scan_rows
    /\ theory' = suspended.theory
    /\ derivation' = suspended.derivation
    /\ background' = suspended.background
    /\ perturb' = suspended.perturb
    /\ qnm_results' = suspended.qnm_results
    /\ disagreement' = suspended.disagreement
    /\ constraints' = suspended.constraints
    /\ novelty' = suspended.novelty
    /\ ledger' = suspended.ledger
    /\ calls' = suspended.calls
    /\ summary' = suspended.summary
    /\ result' = suspended.result
    /\ error' = suspended.error
    /\ UNCHANGED <<llm_reply, reducer, artifact_root, earlier, args, ret, store, files>>

\* a step of the running process: it is past every save_record it called
ProcessStep ==
    /\ Flushed
    /\ \/ StartCampaign
       \/ NextProposal
       \/ DeriveRaises
       \/ DeriveFieldEquations
       \/ ReduceBackground
       \/ DeriveMasterEquation
       \/ SolveQnmRaises
       \/ SolveQnm
       \/ EvaluateConstraints
       \/ ConstraintsRejected
       \/ ScoreNovelty
       \/ BuildPaper
       \/ Finalize

ConcurrentNext ==
    \/ ProcessStep
    \/ Commit
    \/ Switch

ConcurrentSpec == ConcurrentInit /\ [][ConcurrentNext]_vars

(***************************************************************************)
(* The collaborators' functions called on their own                        *)
(***************************************************************************)
\* longest list of QNM results passed to a function
MaxResults == 3

\* all sequences over S of length at most n
SeqsUpTo(S, n) == UNION {[1..k -> S] : k \in 0..n}

\* QNMResult values: the three solver results for mass 1.0 and results with a
\* growing, a decaying and a marginal mode
QnmSamples ==
    {solve_qnm([method |-> m, l |-> 2, n |-> 0, mass |-> 1000], "run1", m) : m \in Range(Methods)}
    \cup {[run_id |-> "run1", method |-> SHOOTING, l |-> 2, n |-> 0,
           omega_real |-> 500000, omega_imag |-> v] : v \in {500000, 0, -500000}}

\* tolerances -0.001, 0.0, 0.001, 0.02 and 0.05, in millionths
Tolerances == {-1000, 0, 1000, 20000, 50000}

\* calls of compare_methods(results, tolerance)
CompareCalls ==
    [fn : {"compare_methods"}, results : SeqsUpTo(QnmSamples, MaxResults), tolerance : Tolerances]

\* compare_methods(results, tolerance) is called and returns
CallCompareMethods ==
    /\ pc = "call"
    /\ args.fn = "compare_methods"
    /\ ret' = compare_methods(args.results, args.tolerance)
    /\ pc' = "returned"
    /\ UNCHANGED <<inputs, earlier, suspended, store, args, proposals, idx, counters, locals, ledger,
                   files, calls, outcome>>

\* QNMResult values with a growing, a marginal and a decaying mode
ModeSamples == {r \in QnmSamples : r.omega_real = 500000}

\* parameters that decide the kinetic coefficient: none, kinetic_coeff, zeta,
\* or both (kinetic_coeff is looked up first), in thousandths
KineticParameters ==
    {EmptyDict}
    \cup {[kinetic_coeff |-> v] : v \in {-1000, 0, 1000}}
    \cup {[zeta |-> v] : v \in {-1000, 0, 20}}
    \cup {[kinetic_coeff |-> 1000, zeta |-> -1000], [kinetic_coeff |-> -1000, zeta |-> 20]}

\* parameters alpha and beta around the magnitude 100, in thousandths
AlphaParameters == {EmptyDict} \cup {[alpha |-> v] : v \in {-150000, 100000, 100001}}

BetaParameters == {EmptyDict} \cup {[beta |-> v] : v \in {-100001, -100000, 150000}}

\* TheorySpec values that differ in their parameters
ParameterTheories ==
    {[name |-> "t", action |-> <<"R">>, parameters |-> DictUpdate(DictUpdate(k, a), b)] :
        k \in KineticParameters, a \in AlphaParameters, b \in BetaParameters}

\* what can be passed as qnm_results: None, a list, a one-shot iterator
ResultArguments ==
    {NoResults}
    \cup {ListOf(s) : s \in SeqsUpTo(ModeSamples, MaxResults)}
    \cup {IteratorOf(s) : s \in SeqsUpTo(ModeSamples, MaxResults)}

\* calls of evaluate_constraints(run_id, theory, qnm_results)
ConstraintCalls ==
    [fn : {"evaluate_constraints"}, run_id : {"run1"}, theory : ParameterTheories,
     qnm_results : ResultArguments]

\* evaluate_constraints(run_id, theory, qnm_results) is called and returns
CallEvaluateConstraints ==
    /\ pc = "call"
    /\ args.fn = "evaluate_constraints"
    /\ ret' = evaluate_constraints(args.run_id, args.theory, args.qnm_results)
    /\ pc' = "returned"
    /\ UNCHANGED <<inputs, earlier, suspended, store, args, proposals, idx, counters, locals, ledger,
                   files, calls, outcome>>

\* DerivationArtifact.metadata is a dict: with any family, or without the key
ArtifactMetadata ==
    {EmptyDict}
    \cup {[family |-> f] : f \in {"GR", "f(R)", "Einstein-scalar-GB", "generic_modified_gravity"}}

\* calls of reduce_to_background_odes(theory, artifact, run_id)
ReduceCalls ==
    {[fn |-> "reduce_to_background_odes",
      theory |-> t,
      artifact |-> [derive_field_equations(t, "run1") EXCEPT !.metadata = md],
      run_id |-> "run1"] : t \in SeedTheories, md \in ArtifactMetadata}

\* reduce_to_background_odes(theory, artifact, run_id) is called and returns;
\* the system returned is the one line 122 of the orchestrator binds
CallReduceToBackgroundOdes ==
    /\ pc = "call"
    /\ args.fn = "reduce_to_background_odes"
    /\ ret' = reduce_to_background_odes(args.theory, args.artifact, args.run_id)
    /\ background' = ret'
    /\ pc' = "returned"
    /\ UNCHANGED <<inputs, earlier, suspended, store, args, proposals, idx, counters, theory, derivation,
                   perturb, qnm_results, disagreement, constraints, novelty, ledger,
                   files, calls, outcome>>

\* calls of ProposalGenerator(enable_llm).generate(seed_theory, count), with
\* what the language-model path answers
GenerateCalls ==
    [fn : {"generate"},
     enable_llm : BOOLEAN,
     seed_theory : {t \in SeedTheories : t.name \in {"gr", "fr"}},
     count : Counts,
     reply : LlmReplies]

\* generate(seed_theory, count) is called and returns
CallGenerate ==
    /\ pc = "call"
    /\ args.fn = "generate"
    /\ ret' = generate(args.enable_llm, args.seed_theory, args.count, args.reply)
    /\ pc' = "returned"
    /\ UNCHANGED <<inputs, earlier, suspended, store, args, proposals, idx, counters, locals, ledger,
                   files, calls, outcome>>

\* parameter dicts with the same items in either insertion order, and a
\* smaller one
JsonInner ==
    {PyDict(<<<<"alpha", PyNum(1)>>, <<"beta", PyNum(2)>>>>),
     PyDict(<<<<"beta", PyNum(2)>>, <<"alpha", PyNum(1)>>>>),
     PyDict(<<<<"alpha", PyNum(1)>>>>)}

\* values of a dumped model: a name, a number, a list, a parameter dict
JsonValues == {PyStr("gr"), PyNum(1), PyList(<<PyNum(1), PyNum(2)>>)} \cup JsonInner

\* dicts of at most two items over the keys name and parameters, in every
\* insertion order
JsonPayloads ==
    {PyDict(<<>>)}
    \cup {PyDict(<<<<k, v>>>>) : k \in {"name", "parameters"}, v \in JsonValues}
    \cup {PyDict(<<<<ks[1], v>>, <<ks[2], w>>>>) :
             ks \in {<<"name", "parameters">>, <<"parameters", "name">>},
             v \in JsonValues, w \in JsonValues}

\* stable_hash is called on one payload and then on another
HashCalls == [fn : {"stable_hash"}, first : JsonPayloads, second : JsonPayloads]

\* stable_hash(first) and stable_hash(second) are called and return; the
\* canonical texts are kept with the digests
CallStableHash ==
    /\ pc = "call"
    /\ args.fn = "stable_hash"
    /\ ret' = [text_first |-> canonical_json(args.first),
               text_second |-> canonical_json(args.second),
               hash_first |-> stable_hash(args.first),
               hash_second |-> stable_hash(args.second)]
    /\ pc' = "returned"
    /\ UNCHANGED <<inputs, earlier, suspended, store, args, proposals, idx, counters, locals, ledger,
                   files, calls, outcome>>

FunctionCalls ==
    CompareCalls \cup ConstraintCalls \cup ReduceCalls \cup GenerateCalls \cup HashCalls

\* a function is about to be called on its own: no campaign is running
FunctionInit ==
    /\ args \in FunctionCalls
    /\ ret = None
    /\ suspended = None
    /\ store = EmptyLedger
    /\ pc = "call"
    /\ campaign = None
    /\ llm_reply = [ok |-> FALSE, proposals |-> <<>>]
    /\ artifact_root = ArtifactRoot
    /\ reducer = "builtin"
    /\ proposals = <<>>
    /\ idx = 0
    /\ accepted = 0
    /\ rejected = 0
    /\ paper_outputs = <<>>
    /\ aggregate_scan_rows = <<>>
    /\ theory = None
    /\ derivation = None
    /\ background = None
    /\ perturb = None
    /\ qnm_results = <<>>
    /\ disagreement = None
    /\ constraints = None
    /\ novelty = None
    /\ ledger = EmptyLedger
    /\ files = {}
    /\ calls = <<>>
    /\ summary = None
    /\ result = None
    /\ error = NoError
    /\ earlier = <<>>

FunctionNext ==
    \/ CallCompareMethods
    \/ CallEvaluateConstraints
    \/ CallReduceToBackgroundOdes
    \/ CallGenerate
    \/ CallStableHash

FunctionSpec == FunctionInit /\ [][FunctionNext]_vars

(***************************************************************************)
(* Reading the history                                                     *)
(***************************************************************************)
\* the proposals of the run, by position
Candidates == 1..Len(proposals)

\* history entries of candidate c
EntriesOf(c) == {i \in 1..Len(calls) : calls[i].cand = c}

\* candidate c has an entry of function fn
HasCall(c, fn) == \E i \in EntriesOf(c) : calls[i].fn = fn

\* candidate c has an entry of function fn with string arg
HasCallArg(c, fn, arg) == \E i \in EntriesOf(c) : calls[i].fn = fn /\ calls[i].arg = arg

\* number of entries of candidate c of function fn with string arg
CountCallArg(c, fn, arg) ==
    Cardinality({i \in EntriesOf(c) : calls[i].fn = fn /\ calls[i].arg = arg})

\* the loop has left candidate c behind
Completed(c) == c \in Candidates /\ c < idx

\* the reducer returned a system for c that is not square (false or missing)
BackgroundFailed(c) ==
    \/ HasCallArg(c, "reduce_to_background_odes", "not_square")
    \/ HasCallArg(c, "reduce_to_background_odes", "missing")

\* the last row of a table
LastRow(table) == ledger[table][Len(ledger[table])]

\* every table but the named ones is left as it is by the step
OtherTablesUnchanged(touched) == \A t \in Tables \ touched : ledger'[t] = ledger[t]

(***************************************************************************)
(* C1                                                                      *)
(***************************************************************************)
StagesAfterBackground ==
    {"derive_master_equation", "solve_qnm", "compare_methods", "evaluate_constraints",
     "spectrum_table", "score_novelty", "build_paper"}

TablesAfterBackground == {"qnm_runs", "constraint_reports", "novelty_reports", "paper_builds"}

\* no later stage ran and no later table was written for candidate c
NothingAfterBackground(c) ==
    \A i \in EntriesOf(c) :
        /\ calls[i].fn \notin StagesAfterBackground
        /\ ~(calls[i].fn = "save_record" /\ calls[i].arg \in TablesAfterBackground)
        /\ ~(calls[i].fn = "write_artifact")

C1_State ==
    \A c \in Candidates :
        BackgroundFailed(c) =>
            /\ NothingAfterBackground(c)
            /\ Completed(c) => CountCallArg(c, "_log_event", "background/rejected") = 1

C1_Step ==
    (pc = "background_gate" /\ BackgroundFailed(idx)) =>
        /\ rejected' = rejected + 1
        /\ accepted' = accepted
        /\ Len(ledger'["events"]) = Len(ledger["events"]) + 1
        /\ ledger'["events"][Len(ledger'["events"])].stage = "background"
        /\ ledger'["events"][Len(ledger'["events"])].status = "rejected"
        /\ ledger'["events"][Len(ledger'["events"])].run_id = campaign.run_id
        /\ OtherTablesUnchanged({"events"})
        /\ idx' = idx + 1

\* C1: a candidate whose background system has square_system false or missing
\* makes the gate step add exactly one to rejected_theories and append one
\* (background, rejected) event and nothing else; no perturbation, QNM,
\* consensus, constraint, novelty or paper call and no qnm_runs,
\* constraint_reports, novelty_reports or paper_builds row exists for it.
C1_BackgroundGateRejects == [](C1_State) /\ [][C1_Step]_vars

\* a finished campaign in which one candidate was rejected for a missing key,
\* one for square_system = false, and one was accepted
C1_Witness ==
    /\ pc = "done"
    /\ accepted >= 1
    /\ \E c \in Candidates : HasCallArg(c, "reduce_to_background_odes", "missing")
    /\ \E c \in Candidates : HasCallArg(c, "reduce_to_background_odes", "not_square")


(***************************************************************************)
(* C2                                                                      *)
(***************************************************************************)
C2_State ==
    \A c \in Candidates :
        /\ (HasCall(c, "score_novelty") \/ HasCall(c, "build_paper"))
               => HasCallArg(c, "evaluate_constraints", "valid")
        /\ HasCall(c, "evaluate_constraints")
               => /\ ~BackgroundFailed(c)
                  /\ \A i \in EntriesOf(c) :
                         calls[i].fn = "evaluate_constraints" => calls[i].num = Len(Methods)
        /\ (Completed(c) /\ HasCallArg(c, "evaluate_constraints", "valid"))
               => HasCall(c, "score_novelty") /\ HasCall(c, "build_paper")
        /\ (Completed(c) /\ HasCallArg(c, "evaluate_constraints", "invalid"))
               => /\ CountCallArg(c, "_log_event", "constraints/rejected") = 1
                  /\ ~HasCall(c, "score_novelty")
                  /\ ~HasCall(c, "build_paper")

\* the verdict at the gate is the one of the merged parameters and all results
C2_Verdict ==
    pc = "constraints_gate" =>
        /\ Len(qnm_results) = Len(Methods)
        /\ constraints = evaluate_constraints(campaign.run_id,
               [parameters |-> DictUpdate(campaign.seed_theory.parameters,
                                          proposals[idx].parameters)],
               ListOf(qnm_results))

C2_Step ==
    (pc = "constraints_gate" /\ ~constraints.is_valid) =>
        /\ rejected' = rejected + 1
        /\ accepted' = accepted
        /\ Len(ledger'["events"]) = Len(ledger["events"]) + 1
        /\ ledger'["events"][Len(ledger'["events"])].stage = "constraints"
        /\ ledger'["events"][Len(ledger'["events"])].status = "rejected"
        /\ ledger'["events"][Len(ledger'["events"])].message =
               theory.name \o " rejected by physics filters: " \o ReprList(constraints.reasons)
        /\ constraints.reasons # <<>>
        /\ OtherTablesUnchanged({"events"})
        /\ idx' = idx + 1

\* C2: a candidate past the background gate reaches score_novelty and
\* build_paper if and only if evaluate_constraints, on its merged parameters
\* and its three QNM results, returned is_valid; otherwise the gate step adds
\* one to rejected_theories and appends one (constraints, rejected) event
\* whose message carries the reasons, and neither call is made for it.
C2_ConstraintGate == [](C2_State /\ C2_Verdict) /\ [][C2_Step]_vars

\* a finished campaign with a candidate rejected by the constraints and a
\* later candidate accepted
C2_Witness ==
    /\ pc = "done"
    /\ \E c \in Candidates, d \in Candidates :
           /\ c < d
           /\ HasCallArg(c, "evaluate_constraints", "invalid")
           /\ HasCallArg(d, "evaluate_constraints", "valid")
           /\ HasCall(d, "build_paper")

(***************************************************************************)
(* C3                                                                      *)
(***************************************************************************)
TerminalEvents == {"background/rejected", "constraints/rejected", "paper/ok"}

\* history positions of the terminal events of candidate c
TerminalEntries(c) ==
    {i \in EntriesOf(c) : calls[i].fn = "_log_event" /\ calls[i].arg \in TerminalEvents}

AcceptedSet == {c \in Candidates : HasCallArg(c, "_log_event", "paper/ok")}

RejectedSet ==
    {c \in Candidates : \/ HasCallArg(c, "_log_event", "background/rejected")
                        \/ HasCallArg(c, "_log_event", "constraints/rejected")}

\* rows of the events table with the given status
EventsWithStatus(status) ==
    {i \in 1..Len(ledger["events"]) : ledger["events"][i].status = status}

C3_State ==
    /\ \A c \in Candidates :
           /\ Cardinality(TerminalEntries(c)) = IF Completed(c) THEN 1 ELSE 0
           /\ \A i \in TerminalEntries(c) : \A j \in EntriesOf(c) : j <= i
    /\ AcceptedSet \cap RejectedSet = {}
    /\ accepted = Cardinality(AcceptedSet)
    /\ rejected = Cardinality(RejectedSet)
    /\ rejected = Cardinality(EventsWithStatus("rejected"))
    /\ pc # "start" => accepted + rejected = idx - 1
    /\ pc = "done" => accepted + rejected = Len(proposals)

C3_Step ==
    /\ accepted' >= accepted
    /\ rejected' >= rejected
    /\ accepted' + rejected' <= accepted + rejected + 1

\* C3: every candidate the loop has left behind has exactly one terminal
\* event (paper/ok, background/rejected or constraints/rejected), which is the
\* last thing done for it; the accepted and the rejected candidates are
\* disjoint sets whose sizes are the two counters, no candidate is uncounted,
\* and no step takes a count back or counts twice.
C3_ExactlyOneTerminalState == [](C3_State) /\ [][C3_Step]_vars

\* a finished campaign with candidates in both terminal states
C3_Witness ==
    /\ pc = "done"
    /\ accepted >= 1
    /\ rejected >= 2
    /\ \E c \in Candidates : HasCallArg(c, "_log_event", "background/rejected")
    /\ \E c \in Candidates : HasCallArg(c, "_log_event", "constraints/rejected")


(***************************************************************************)
(* C4                                                                      *)
(***************************************************************************)
\* C4: when a campaign returns, accepted_theories + rejected_theories is the
\* number of proposals generate returned, and that number is at most the
\* requested proposal_count, for every integer proposal_count.
\* (No list has fewer than zero items: for a negative request the bound is
\* read as zero, the weakest reading of the claim.)
C4_CountsBoundedByRequest ==
    pc = "done" =>
        /\ result.accepted_theories + result.rejected_theories = Len(proposals)
        /\ Len(proposals) <= Max2(campaign.proposal_count, 0)

(***************************************************************************)
(* C5                                                                      *)
(***************************************************************************)
\* C5 as stated: the consensus check is a gate, so a candidate whose method
\* results are not consistent is never accepted.
C5_ConsensusIsGate ==
    \A c \in Candidates :
        HasCallArg(c, "compare_methods", "inconsistent")
            => ~HasCallArg(c, "_log_event", "paper/ok")

C5_State ==
    \A c \in Candidates :
        /\ (Completed(c) /\ HasCall(c, "compare_methods"))
               => (HasCallArg(c, "_log_event", "paper/ok")
                      <=> HasCallArg(c, "evaluate_constraints", "valid"))
        /\ HasCall(c, "build_paper") => HasCall(c, "compare_methods")

\* the report in hand at the gate is the one of the three results at the
\* default tolerance, and the table of an accepted candidate carries its maxima
C5_Report ==
    /\ pc \in {"constraints_gate", "paper"} =>
           /\ disagreement.max_abs_delta_real >= 0
           /\ disagreement.max_abs_delta_imag >= 0
           /\ disagreement.is_consistent <=>
                  (/\ disagreement.max_abs_delta_real <= DefaultToleranceMicro
                   /\ disagreement.max_abs_delta_imag <= DefaultToleranceMicro)
    /\ pc = "paper" =>
           \A i \in 1..Len(Methods) :
               LET row == aggregate_scan_rows[Len(aggregate_scan_rows)][i]
               IN /\ row.method_disagreement_real = disagreement.max_abs_delta_real
                  /\ row.method_disagreement_imag = disagreement.max_abs_delta_imag

\* C5 amended: the consensus report is computed for every candidate past the
\* background gate but is no gate: such a candidate is accepted if and only if
\* its constraint verdict is valid, whether or not the methods agree; the
\* report is only carried into the candidate's spectrum table and paper.
C5_ConsensusIsInformational == C5_State /\ C5_Report

\* an accepted candidate whose consensus report is inconsistent
C5_Witness ==
    \E c \in Candidates :
        /\ HasCallArg(c, "compare_methods", "inconsistent")
        /\ HasCallArg(c, "_log_event", "paper/ok")

(***************************************************************************)
(* C6                                                                      *)
(***************************************************************************)
\* events of the log written for candidate c
EventEntries(c) == {i \in EntriesOf(c) : calls[i].fn = "_log_event"}

\* rows candidate c wrote to a table
RowsWritten(c, table) == CountCallArg(c, "save_record", table)

\* C6: every stage transition of a candidate appends exactly one event, and
\* every stage that produces a record entity appends one row to the table of
\* that entity kind (theory, derivation, background system, perturbation
\* system, per-method QNM result, constraint verdict, novelty report, paper).
C6_EveryStageRecorded ==
    \A c \in Candidates :
        (Completed(c) /\ HasCallArg(c, "_log_event", "paper/ok")) =>
            \* proposed, derived, background consistent, perturbed, QNM solved,
            \* constraints valid, novelty scored, paper built
            /\ Cardinality(EventEntries(c)) = 8
            /\ RowsWritten(c, "theories") = 1
            /\ RowsWritten(c, "derivations") = 1
            /\ RowsWritten(c, "background_runs") = 1
            /\ RowsWritten(c, "perturb_runs") = 1
            /\ RowsWritten(c, "qnm_runs") = Len(Methods)
            /\ RowsWritten(c, "constraint_reports") = 1
            /\ RowsWritten(c, "novelty_reports") = 1
            /\ RowsWritten(c, "paper_builds") = 1

(***************************************************************************)
(* C7                                                                      *)
(***************************************************************************)
\* max_abs_delta_real of the consensus reports of the accepted candidates
AcceptedDeltasReal ==
    {calls[i].num : i \in {j \in 1..Len(calls) :
        calls[j].fn = "compare_methods" /\ calls[j].cand \in AcceptedSet}}

SummaryKeys ==
    {"rows", "valid_rows", "invalid_rows", "max_disagreement_real",
     "max_disagreement_imag", "spectrum_file"}

\* C7: the summary of a returned campaign carries rows, valid_rows,
\* invalid_rows, max_disagreement_real, max_disagreement_imag and the location
\* of the combined artifact; rows is the number of merged rows and
\* max_disagreement_real is the maximum over the accepted candidates of the
\* max_abs_delta_real of their consensus reports.
\* (Stated for the campaigns that accepted at least one candidate, where the
\* merged dataset is not empty.)
C7_SummaryDescribesAccepted ==
    (pc = "done" /\ accepted >= 1) =>
        /\ SummaryKeys \subseteq DOMAIN result.summary
        /\ result.summary["rows"] = Len(Methods) * accepted
        /\ result.summary["max_disagreement_real"] = MaxOf(AcceptedDeltasReal)


(***************************************************************************)
(* C8                                                                      *)
(***************************************************************************)
\* history positions of the collaborator calls that raised
RaisedEntries == {i \in 1..Len(calls) : calls[i].arg = "raised"}

\* s is a prefix of t
IsPrefix(s, t) == Len(s) <= Len(t) /\ SubSeq(t, 1, Len(s)) = s

\* rows the history says were written to a table
WritesTo(table) ==
    IF table = "events"
    THEN Cardinality({i \in 1..Len(calls) : calls[i].fn = "_log_event"})
    ELSE Cardinality({i \in 1..Len(calls) :
             calls[i].fn = "save_record" /\ calls[i].arg = table})

C8_State ==
    /\ \A i \in RaisedEntries :
           /\ i = Len(calls)
           /\ calls[i].cand = idx
           /\ calls[i].fn \in {"derive_field_equations", "solve_qnm"}
    /\ (RaisedEntries # {}) <=> (pc = "raised")
    /\ pc = "raised" =>
           /\ error # NoError
           /\ result = None
           /\ \A c \in Candidates : c > idx => EntriesOf(c) = {}
           /\ \A i \in 1..Len(ledger["events"]) : ledger["events"][i].stage # "finalize"
    /\ \A t \in Tables : Len(ledger[t]) = WritesTo(t)

C8_Step ==
    /\ \A t \in Tables : IsPrefix(ledger[t], ledger'[t])
    /\ files \subseteq files'
    /\ pc = "raised" => (ledger' = ledger /\ files' = files /\ calls' = calls /\ pc' = pc)

\* C8: a collaborator call that raises is made once (whatever
\* max_retries_per_stage is) and is the last thing the run does: the error
\* leaves run_autonomous_campaign, no later candidate is touched and no
\* finalize event is written; every step of a run only appends rows, so the
\* rows written before the failure stay as they were and the ledger holds
\* exactly the writes made up to the failure.
C8_FailurePropagates == [](C8_State) /\ [][C8_Step]_vars

\* with retries configured, the second candidate failed in solve_qnm after the
\* first was accepted and its three qnm_runs rows were written
C8_Witness ==
    /\ pc = "raised"
    /\ campaign.max_retries_per_stage = 2
    /\ idx = 2
    /\ accepted = 1
    /\ Len(ledger["qnm_runs"]) = Len(Methods)
    /\ calls[Len(calls)].fn = "solve_qnm"

(***************************************************************************)
(* C9                                                                      *)
(***************************************************************************)
WritingFns == {"save_record", "_log_event", "write_json_artifact", "write_artifact"}

\* C9: a malformed candidate (a proposal whose action is empty or blank) is
\* refused before any stage runs: no ledger row, no event and no artifact is
\* ever written for it.
C9_MalformedCandidateLeavesNothing ==
    \A c \in Candidates :
        IsBlankAction(proposals[c].action) =>
            \A i \in EntriesOf(c) : calls[i].fn \notin WritingFns

(***************************************************************************)
(* C10                                                                     *)
(***************************************************************************)
C10_State ==
    /\ pc = "raised" => calls[Len(calls)].arg = "raised"
    /\ pc = "done" =>
           /\ result # None
           /\ result.accepted_theories + result.rejected_theories = Len(proposals)
           /\ LastRow("events").stage = "finalize"
           /\ LastRow("events").status = "ok"
           /\ \A c \in Candidates : Completed(c)
    /\ \A c \in RejectedSet :
           c < Len(proposals) =>
               \/ HasCall(c + 1, "_proposal_to_theory")
               \/ pc = "loop" /\ idx = c + 1

C10_Step ==
    (pc \in {"background_gate", "constraints_gate"} /\ rejected' = rejected + 1) =>
        /\ pc' = "loop"
        /\ idx' = idx + 1
        /\ error' = NoError

\* C10: the run always ends, either returning (done) or with a collaborator
\* error (raised); it is never ended by a gate: a rejection step goes back to
\* the loop head, the next proposal (if any) is then evaluated, and a returned
\* run has gone through every proposal and has (finalize, ok) as last event.
C10_RejectionsNeverAbort ==
    /\ <>(pc \in {"done", "raised"})
    /\ [](C10_State)
    /\ [][C10_Step]_vars

\* a returned campaign all of whose candidates, three or more, were rejected
C10_Witness ==
    /\ pc = "done"
    /\ Len(proposals) >= 3
    /\ result.rejected_theories = Len(proposals)
    /\ result.accepted_theories = 0

(***************************************************************************)
(* C11                                                                     *)
(***************************************************************************)
\* the invocations that have ended, the one in progress included
FinishedRuns ==
    Range(earlier) \cup (IF pc \in {"done", "raised"} THEN {CurrentRun} ELSE {})

\* two campaigns ask for the same thing on the deterministic path
SameRequest(c1, c2) ==
    /\ c1.seed_theory = c2.seed_theory
    /\ c1.proposal_count = c2.proposal_count
    /\ ~c1.enable_llm
    /\ ~c2.enable_llm

\* C11: two invocations with the same seed theory, the same proposal_count
\* and enable_llm = false end the same way, and when they return they return
\* the same accepted_theories and the same rejected_theories, whatever their
\* run_id and whatever rows the earlier invocations left in the ledger.
C11_SameRequestSameCounts ==
    \A r1 \in FinishedRuns, r2 \in FinishedRuns :
        SameRequest(r1.campaign, r2.campaign) =>
            /\ r1.error = r2.error
            /\ (r1.result = None) <=> (r2.result = None)
            /\ r1.result # None =>
                   /\ r1.result.accepted_theories = r2.result.accepted_theories
                   /\ r1.result.rejected_theories = r2.result.rejected_theories

\* a second invocation, under another run_id and on a ledger that holds
\* the rows of the first, has returned for the same request, with candidates
\* accepted and candidates rejected
C11_Witness ==
    /\ pc = "done"
    /\ Len(earlier) = 1
    /\ SameRequest(earlier[1].campaign, campaign)
    /\ earlier[1].campaign.run_id # campaign.run_id
    /\ earlier[1].rows["theories"] >= 3
    /\ result.accepted_theories >= 1
    /\ result.rejected_theories >= 1


(***************************************************************************)
(* C12                                                                     *)
(***************************************************************************)
\* the call of fn made on its own has returned
Returned(fn) == pc = "returned" /\ args.fn = fn

\* the three solver results for mass 1.0, in the order of the methods
SolverResults ==
    [i \in 1..Len(Methods) |->
        solve_qnm([method |-> Methods[i], l |-> 2, n |-> 0, mass |-> 1000], "run1", Methods[i])]

\* C12: compare_methods(results, tolerance) with tolerance >= 0 returns
\* (0, 0, true) for fewer than two results; otherwise each maximum bounds the
\* difference of every pair of results and is the difference of some pair,
\* both maxima are non-negative, and is_consistent is true exactly when both
\* maxima are at most the tolerance.
C12_CompareMethods ==
    (Returned("compare_methods") /\ args.tolerance >= 0) =>
        LET rs == args.results
            n == Len(rs)
            DeltaReal(i, j) == Abs(rs[i].omega_real - rs[j].omega_real)
            DeltaImag(i, j) == Abs(rs[i].omega_imag - rs[j].omega_imag)
        IN IF n < 2
           THEN /\ ret.max_abs_delta_real = 0
                /\ ret.max_abs_delta_imag = 0
                /\ ret.is_consistent
           ELSE /\ \A i \in 1..n, j \in 1..n : DeltaReal(i, j) <= ret.max_abs_delta_real
                /\ \A i \in 1..n, j \in 1..n : DeltaImag(i, j) <= ret.max_abs_delta_imag
                /\ \E i \in 1..n, j \in 1..n : i < j /\ DeltaReal(i, j) = ret.max_abs_delta_real
                /\ \E i \in 1..n, j \in 1..n : i < j /\ DeltaImag(i, j) = ret.max_abs_delta_imag
                /\ ret.max_abs_delta_real >= 0
                /\ ret.max_abs_delta_imag >= 0
                /\ ret.is_consistent <=>
                       (/\ ret.max_abs_delta_real <= args.tolerance
                        /\ ret.max_abs_delta_imag <= args.tolerance)

\* the three solver results, consistent at tolerance 0.05, were compared at
\* tolerance 0.001 and found inconsistent
C12_Witness ==
    /\ Returned("compare_methods")
    /\ args.results = SolverResults
    /\ args.tolerance = 1000
    /\ ~ret.is_consistent
    /\ compare_methods(SolverResults, 50000).is_consistent


(***************************************************************************)
(* C13                                                                     *)
(***************************************************************************)
\* C13: reduce_to_background_odes returns a square system for every theory
\* and every family of the derivation (the key may be missing): three
\* equations in three unknowns for f(R), two in two otherwise, square_system
\* true; the background gate of the orchestrator lets the system through.
C13_ReducerAlwaysSquare ==
    Returned("reduce_to_background_odes") =>
        LET family == DictGet(args.artifact.metadata, "family", "generic")
            size == IF family = "f(R)" THEN 3 ELSE 2
        IN /\ Len(ret.reduced_equations) = size
           /\ Len(ret.unknown_functions) = size
           /\ Len(ret.reduced_equations) >= 2
           /\ ret.consistency["square_system"] = TRUE
           /\ ret.consistency["equation_count"] = size
           /\ ret.consistency["unknown_count"] = size
           /\ ret.theory_name = args.theory.name
           /\ ~BackgroundInconsistent

\* the reducer has returned for an f(R) derivation
C13_Witness ==
    /\ Returned("reduce_to_background_odes")
    /\ args.artifact.metadata = [family |-> "f(R)"]
    /\ Len(ret.reduced_equations) = 3


(***************************************************************************)
(* C14                                                                     *)
(***************************************************************************)
\* number of times x occurs in the sequence s
Occurrences(s, x) == Cardinality({i \in 1..Len(s) : s[i] = x})

\* the kinetic coefficient of the parameters p: kinetic_coeff when present,
\* else zeta when present, else 1.0
Resolved(p) ==
    IF "kinetic_coeff" \in DOMAIN p THEN p["kinetic_coeff"]
    ELSE IF "zeta" \in DOMAIN p THEN p["zeta"]
    ELSE 1000

\* C14: with k the resolved kinetic coefficient, evaluate_constraints sets
\* ghost_instability = (k <= 0) and wrong_sign_kinetic = (k < 0) and appends
\* one reason of its own for each flag that is true: k < 0 gives both flags,
\* both reasons and is_valid false, k = 0 the ghost flag and reason only,
\* k > 0 neither; wrong_sign_kinetic implies ghost_instability.
C14_KineticFlags ==
    Returned("evaluate_constraints") =>
        LET k == Resolved(args.theory.parameters)
        IN /\ ret.ghost_instability = (k <= 0)
           /\ ret.wrong_sign_kinetic = (k < 0)
           /\ Occurrences(ret.reasons, GhostReason) = IF k <= 0 THEN 1 ELSE 0
           /\ Occurrences(ret.reasons, WrongSignReason) = IF k < 0 THEN 1 ELSE 0
           /\ k <= 0 => ~ret.is_valid
           /\ ret.wrong_sign_kinetic => ret.ghost_instability
           /\ ret.metrics["kinetic_coeff"] = k

\* kinetic_coeff = -1.0 and no results: both flags, both reasons, invalid
C14_Witness ==
    /\ Returned("evaluate_constraints")
    /\ args.theory.parameters = [kinetic_coeff |-> -1000]
    /\ args.qnm_results = ListOf(<<>>)
    /\ ret.ghost_instability
    /\ ret.wrong_sign_kinetic
    /\ ret.reasons = <<GhostReason, WrongSignReason>>
    /\ ~ret.is_valid


(***************************************************************************)
(* C15                                                                     *)
(***************************************************************************)
\* C15: evaluate_constraints reads alpha and beta with default 0.0 each and
\* sets divergent_background = (|alpha| > 100) or (|beta| > 100), strictly;
\* a true flag appends its reason, once, and makes is_valid false.
C15_DivergenceFilter ==
    Returned("evaluate_constraints") =>
        LET p == args.theory.parameters
            alpha == IF "alpha" \in DOMAIN p THEN p["alpha"] ELSE 0
            beta == IF "beta" \in DOMAIN p THEN p["beta"] ELSE 0
            divergent == Abs(alpha) > 100000 \/ Abs(beta) > 100000
        IN /\ ret.divergent_background = divergent
           /\ Occurrences(ret.reasons, DivergenceReason) = IF divergent THEN 1 ELSE 0
           /\ divergent => ~ret.is_valid
           /\ ret.metrics["alpha"] = alpha
           /\ ret.metrics["beta"] = beta

\* alpha = 100.0 and beta = -100.0, magnitudes of exactly 100: not divergent
C15_Witness ==
    /\ Returned("evaluate_constraints")
    /\ args.theory.parameters = [alpha |-> 100000, beta |-> -100000]
    /\ ~ret.divergent_background
    /\ ret.is_valid

(***************************************************************************)
(* C16                                                                     *)
(***************************************************************************)
\* C16: when qnm_results holds results, metrics records the largest
\* omega_imag and the unstable-mode reason is appended exactly when that
\* maximum is > 0; when qnm_results is empty or None the check is skipped:
\* no unstable-mode reason, no max_omega_imag metric, and the verdict is
\* that of the other rules.
C16_UnstableModeCheck ==
    Returned("evaluate_constraints") =>
        LET items == args.qnm_results.items
            largest == MaxOf({items[i].omega_imag : i \in 1..Len(items)})
        IN IF items # <<>>
           THEN /\ "max_omega_imag" \in DOMAIN ret.metrics
                /\ ret.metrics["max_omega_imag"] = largest
                /\ Occurrences(ret.reasons, UnstableReason) = IF largest > 0 THEN 1 ELSE 0
                /\ largest > 0 => ~ret.is_valid
           ELSE /\ Occurrences(ret.reasons, UnstableReason) = 0
                /\ "max_omega_imag" \notin DOMAIN ret.metrics
                /\ ret.is_valid <=>
                       ~(ret.ghost_instability \/ ret.wrong_sign_kinetic \/ ret.divergent_background)

(***************************************************************************)
(* C17                                                                     *)
(***************************************************************************)
\* the unstable-mode condition: some result has omega_imag > 0
GrowingMode(items) == \E i \in 1..Len(items) : items[i].omega_imag > 0

C17_State ==
    /\ (pc = "call" /\ args.fn = "evaluate_constraints") => ENABLED CallEvaluateConstraints
    /\ Returned("evaluate_constraints") =>
           /\ ret.is_valid <=> (ret.reasons = <<>>)
           /\ (ret.reasons = <<>>) <=>
                  ~(\/ ret.ghost_instability
                    \/ ret.wrong_sign_kinetic
                    \/ ret.divergent_background
                    \/ GrowingMode(args.qnm_results.items))

C17_Step ==
    (pc = "call" /\ args.fn = "evaluate_constraints") =>
        /\ pc' = "returned"
        /\ args' = args
        /\ ledger' = ledger
        /\ files' = files

LastRowOf(k, t) ==
    IF k = 0 THEN 0
    ELSE IF k <= Len(earlier) THEN earlier[k].rows[t]
    ELSE Len(ledger[t])

\* the rows of table t that invocation k wrote
RowsOf(k, t) == SubSeq(ledger[t], LastRowOf(k - 1, t) + 1, LastRowOf(k, t))

\* the history entries the step adds
NewCalls == SubSeq(calls', Len(calls) + 1, Len(calls'))

\* the number of writes to table t among the entries cs
WritesIn(cs, t) ==
    Cardinality({i \in 1..Len(cs) :
        \/ cs[i].fn = "save_record" /\ cs[i].arg = t
        \/ cs[i].fn = "_log_event" /\ t = "events"})

C18_State ==
    \* a save_record on the ledger as it is adds one complete row to one table
    /\ \A t \in Tables :
           LET row == [c \in Columns[t] |-> "probe"]
               after == save_record(ledger, t, row)
           IN /\ Len(after[t]) = Len(ledger[t]) + 1
              /\ after[t][Len(after[t])] = row
              /\ IsPrefix(ledger[t], after[t])
              /\ \A u \in Tables \ {t} : after[u] = ledger[u]
    \* every row is complete: it has every column of its table
    /\ \A t \in Tables : \A i \in 1..Len(ledger[t]) : DOMAIN ledger[t][i] = Columns[t]
    \* an invocation that repeats an earlier one, run_id included, has added
    \* its rows again, after the rows of the earlier one
    /\ \A k \in 1..Len(earlier) :
           (pc = "done" /\ earlier[k].campaign = campaign) =>
               \A t \in Tables \ {"events"} :
                   /\ RowsOf(Len(earlier) + 1, t) = RowsOf(k, t)
                   /\ Len(ledger[t]) >= 2 * Len(RowsOf(k, t))

C18_Step ==
    /\ \A t \in Tables : IsPrefix(ledger[t], ledger'[t])
    /\ pc \notin {"done", "raised"} =>
           \A t \in Tables : Len(ledger'[t]) = Len(ledger[t]) + WritesIn(NewCalls, t)
    /\ pc \in {"done", "raised"} => ledger' = ledger

\* C18: the ledger is insert-only: a save_record adds exactly one complete
\* row to exactly one table; no step of any invocation changes or removes a
\* row, so every table only grows by the writes made, and its earlier rows
\* stay as they were; an invocation that repeats an earlier one with the same
\* run_id adds the same rows again instead of replacing them.
C18_LedgerInsertOnly == [](C18_State) /\ [][C18_Step]_vars

\* a campaign was run twice under the same run_id and returned both times
\* with accepted candidates: the theories table holds its rows twice
C18_Witness ==
    /\ pc = "done"
    /\ Len(earlier) = 1
    /\ earlier[1].campaign = campaign
    /\ result.accepted_theories >= 1
    /\ Len(ledger["theories"]) = 2 * earlier[1].rows["theories"]
    /\ Len(ledger["paper_builds"]) = 2 * earlier[1].rows["paper_builds"]
    /\ ledger["theories"][1] = ledger["theories"][earlier[1].rows["theories"] + 1]


(***************************************************************************)
(* C19                                                                     *)
(***************************************************************************)
\* the invocations so far, by number, the one in progress last
Invocations == 1..(Len(earlier) + 1)

\* the run_id of the campaign of invocation k
RunIdOf(k) == IF k <= Len(earlier) THEN earlier[k].campaign.run_id ELSE campaign.run_id

\* numbers of the rows of table t that invocation k wrote
RowNumbersOf(k, t) == (LastRowOf(k - 1, t) + 1)..LastRowOf(k, t)

\* tables whose payload is a record entity with a run_id of its own
EntityTables == {"derivations", "qnm_runs", "constraint_reports", "novelty_reports"}

\* C19: every row an invocation writes, to any table, carries the run_id of
\* its campaign (so does the record entity in its payload), so the rows of a
\* table with a given run_id are exactly the rows written by the invocations
\* whose campaign has that run_id.
C19_RowsCarryRunId ==
    /\ \A k \in Invocations, t \in Tables :
           \A i \in RowNumbersOf(k, t) :
               /\ ledger[t][i].run_id = RunIdOf(k)
               /\ t \in EntityTables => ledger[t][i].payload.run_id = RunIdOf(k)
    /\ \A r \in RunIds, t \in Tables :
           {i \in 1..Len(ledger[t]) : ledger[t][i].run_id = r}
               = UNION {RowNumbersOf(k, t) : k \in {j \in Invocations : RunIdOf(j) = r}}

\* two campaigns with different run_ids have returned, each with accepted
\* candidates: every table the orchestrator writes holds rows of both
C19_Witness ==
    /\ pc = "done"
    /\ Len(earlier) = 1
    /\ earlier[1].campaign.run_id # campaign.run_id
    /\ earlier[1].result # None
    /\ \A t \in {"theories", "derivations", "qnm_runs", "constraint_reports",
                 "novelty_reports", "paper_builds", "events"} :
           \A r \in RunIds : \E i \in 1..Len(ledger[t]) : ledger[t][i].run_id = r


(***************************************************************************)
(* C20                                                                     *)
(***************************************************************************)
\* the language-model path gives nothing to return: it is switched off, the
\* key, the client or the call fails or the content is not JSON (reply.ok is
\* false), no proposal is left to validate, or one of them fails validation
LlmPathFails ==
    LET taken == SliceTo(args.reply.proposals, args.count)
    IN \/ ~args.enable_llm
       \/ ~args.reply.ok
       \/ taken = <<>>
       \/ \E i \in 1..Len(taken) : ~ProposalSpecValidates(taken[i])

\* the names of the three seed-derived candidates, in order
FallbackNames ==
    <<args.seed_theory.name \o "_alphaR2",
      args.seed_theory.name \o "_betaR3",
      args.seed_theory.name \o "_zetaRicci2">>

\* when the language-model path fails the result is an ordered prefix of
\* the three seed-derived candidates, the same for the same seed and count
C20_FallbackOnFailure ==
    (Returned("generate") /\ LlmPathFails) =>
        /\ ret = _fallback(args.seed_theory, args.count)
        /\ IsPrefix([i \in 1..Len(ret) |-> ret[i].name], FallbackNames)
        /\ \A i \in 1..Len(ret) : ret[i].action = Append(args.seed_theory.action, ret[i].action[Len(ret[i].action)])

\* C20: generate(seed, count) returns at most count items (none when count
\* is negative, the weakest reading) and no failure of the language-model
\* path escapes: whenever that path fails the result is the deterministic
\* fallback list, an ordered prefix of the three seed-derived candidates.
C20_GenerateBoundedWithFallback ==
    /\ (pc = "call" /\ args.fn = "generate") => ENABLED CallGenerate
    /\ Returned("generate") => Len(ret) <= Max2(args.count, 0)
    /\ C20_FallbackOnFailure


(***************************************************************************)
(* C21                                                                     *)
(***************************************************************************)
\* the candidate built for proposal c, as dumped into its theories row
CandidateOf(c) == ledger["theories"][c].payload

\* the candidate's parameters are the seed's overridden by the proposal's
MergedOnto(seed, proposal, candidate) ==
    /\ DOMAIN candidate.parameters = DOMAIN seed.parameters \cup DOMAIN proposal.parameters
    /\ \A k \in DOMAIN candidate.parameters :
           candidate.parameters[k] =
               IF k \in DOMAIN proposal.parameters
               THEN proposal.parameters[k]
               ELSE seed.parameters[k]

C21_State ==
    \A c \in 1..Len(ledger["theories"]) :
        /\ CandidateOf(c).name = proposals[c].name
        /\ CandidateOf(c).action = proposals[c].action
        /\ MergedOnto(campaign.seed_theory, proposals[c], CandidateOf(c))
        /\ \A b \in 1..(c - 1) :
               \A k \in DOMAIN proposals[b].parameters :
                   k \in DOMAIN CandidateOf(c).parameters =>
                       k \in DOMAIN campaign.seed_theory.parameters
                                \cup DOMAIN proposals[c].parameters

C21_Step ==
    /\ campaign'.seed_theory = campaign.seed_theory
    /\ pc = "loop" /\ pc' = "derive" =>
           /\ Len(ledger'["theories"]) = Len(ledger["theories"]) + 1
           /\ theory' = ledger'["theories"][Len(ledger'["theories"])].payload

\* C21: building a candidate never mutates the seed theory: every step of the
\* campaign leaves campaign.seed_theory as it was, each candidate carries the
\* proposal's name and action and the seed's parameters overridden by the
\* proposal's on equal keys, and a parameter that only an earlier proposal
\* introduced is absent from a later candidate.
C21_SeedNeverMutated == [](C21_State) /\ [][C21_Step]_vars

\* a third candidate was built from a seed that has zeta: the proposal's zeta
\* replaced the seed's, and alpha and beta of the first two are absent
C21_Witness ==
    /\ Len(ledger["theories"]) >= 3
    /\ "zeta" \in DOMAIN campaign.seed_theory.parameters
    /\ "zeta" \in DOMAIN proposals[3].parameters
    /\ proposals[3].parameters["zeta"] # campaign.seed_theory.parameters["zeta"]
    /\ CandidateOf(3).parameters["zeta"] = proposals[3].parameters["zeta"]
    /\ "alpha" \in DOMAIN proposals[1].parameters
    /\ "alpha" \notin DOMAIN CandidateOf(3).parameters


(***************************************************************************)
(* C22                                                                     *)
(***************************************************************************)
\* the i-th accepted candidate, in candidate order
NthAccepted(i) == CHOOSE c \in AcceptedSet : Cardinality({d \in AcceptedSet : d < c}) = i - 1

\* the outputs recorded in the paper_builds rows, row after row
RECURSIVE BuiltOutputs(_)
BuiltOutputs(rows) ==
    IF rows = <<>> THEN <<>> ELSE Head(rows).payload.outputs \o BuiltOutputs(Tail(rows))

C22_State ==
    /\ Len(ledger["paper_builds"]) = Cardinality(AcceptedSet)
    /\ \A i \in 1..Len(ledger["paper_builds"]) :
           /\ ledger["paper_builds"][i].payload.theory_name = proposals[NthAccepted(i)].name
           /\ ledger["paper_builds"][i].payload.outputs # <<>>
    /\ pc # "start" => paper_outputs = BuiltOutputs(ledger["paper_builds"])
    /\ result # None =>
           /\ result.paper_outputs = paper_outputs
           /\ result.paper_outputs # <<>> <=> result.accepted_theories >= 1

C22_Step ==
    /\ (pc # "start" /\ paper_outputs' # paper_outputs) =>
           /\ pc = "paper" /\ pc' = "loop"
           /\ HasCall(idx, "score_novelty")
           /\ \E i \in (Len(calls) + 1)..Len(calls') :
                  calls'[i] = Call("build_paper", idx, "", 0)
           /\ idx \in AcceptedSet'
           /\ accepted' = accepted + 1
           /\ IsPrefix(paper_outputs, paper_outputs')
    /\ (pc # "start" /\ accepted' # accepted) => paper_outputs' # paper_outputs
    /\ (pc # "start" /\ rejected' # rejected) => paper_outputs' = paper_outputs

\* C22: paper_outputs grows exactly in the step in which a candidate reaches
\* PAPER_BUILT (score_novelty and build_paper returned, the candidate is
\* counted as accepted); a rejection adds nothing; the list is the outputs of
\* the accepted candidates in candidate order; and a returned CampaignResult
\* has paper_outputs non-empty exactly when accepted_theories >= 1.
C22_PaperOutputsOfAccepted == [](C22_State) /\ [][C22_Step]_vars

\* a campaign returned after rejecting its first candidate and accepting a
\* later one, whose files are the whole of paper_outputs
C22_Witness ==
    /\ result # None
    /\ result.rejected_theories >= 1
    /\ result.accepted_theories = 1
    /\ 1 \in RejectedSet
    /\ result.paper_outputs # <<>>
    /\ \A i \in 1..Len(result.paper_outputs) :
           result.paper_outputs[i][4] = proposals[NthAccepted(1)].name


(***************************************************************************)
(* C23                                                                     *)
(***************************************************************************)
\* the two processes, by their locals
Processes == {Running, suspended}

\* the rows of table t the database holds for a run_id, in the order of
\* their ids
OwnRows(t, run_id) == SelectSeq(store[t], LAMBDA row : row.run_id = run_id)

\* how many of the first n inserts of a process went to table t
InsertsInto(p, t, n) == Cardinality({i \in 1..n : InsertTables(p.calls)[i] = t})

\* accepted and rejected of a campaign that runs alone with the built-in
\* collaborators: the GR seed's first candidate is accepted, the first candidate
\* of the seed with zeta = -1 is rejected by the constraints
AloneCounts(c) ==
    IF c.proposal_count = 0 THEN <<0, 0>>
    ELSE IF c.seed_theory.name = "gr" THEN <<1, 0>>
    ELSE <<0, 1>>

C23_State ==
    /\ \A t \in Tables : \A i \in 1..Len(store[t]) :
           /\ DOMAIN store[t][i] = Columns[t]
           /\ \E p \in Processes : store[t][i].run_id = p.campaign.run_id
    /\ \A p \in Processes :
           LET n == CommittedCount(store, p.campaign.run_id)
           IN /\ n <= Len(InsertTables(p.calls))
              /\ \A t \in Tables :
                     OwnRows(t, p.campaign.run_id) = SubSeq(p.ledger[t], 1, InsertsInto(p, t, n))
              /\ (p.pc \in {"done", "raised"} /\ n = Len(InsertTables(p.calls))) =>
                     \A t \in Tables : OwnRows(t, p.campaign.run_id) = p.ledger[t]
              /\ p.result # None =>
                     /\ <<p.result.accepted_theories, p.result.rejected_theories>>
                            = AloneCounts(p.campaign)
                     /\ p.result.accepted_theories = Len(p.ledger["paper_builds"])

C23_Step ==
    /\ \A t \in Tables : IsPrefix(store[t], store'[t])
    /\ store' # store =>
           \E t \in Tables :
               /\ Len(store'[t]) = Len(store[t]) + 1
               /\ \A u \in Tables \ {t} : store'[u] = store[u]

\* C23: two campaigns with different run_ids run at the same time on one
\* database, their commits interleaved in every order: each commit adds one
\* whole row and leaves every row committed before as it was; the rows of a
\* table that carry a run_id are the rows that campaign inserted, in its
\* order (all of them once it ended); and a campaign that returns has the
\* accepted and rejected counts it has alone.
C23_ConcurrentWritersIsolated == [](C23_State) /\ [][C23_Step]_vars

\* both campaigns ended; the first accepted its candidate; the event log
\* starts and ends with a row of the second and holds the first's in between
C23_Witness ==
    /\ \A p \in Processes :
           /\ p.pc \in {"done", "raised"}
           /\ CommittedCount(store, p.campaign.run_id) = Len(InsertTables(p.calls))
    /\ \E p \in Processes :
           /\ p.campaign.run_id = "run1"
           /\ p.result # None
           /\ p.result.accepted_theories = 1
    /\ Len(store["events"]) = 6
    /\ store["events"][1].run_id = "run2"
    /\ store["events"][6].run_id = "run2"
    /\ \A i \in 2..5 : store["events"][i].run_id = "run1"


(***************************************************************************)
(* C24                                                                     *)
(***************************************************************************)
\* the pipeline stages that write artifact files
ArtifactStages == {"derive", "perturb", "paper", "scan"}

\* C24: every artifact file written during a campaign lies under the
\* configured artifact root, then the campaign's run_id, then the pipeline
\* stage, and ends with its file name (directories between the stage and the
\* file name are allowed, the weakest reading).
C24_ArtifactsUnderConfiguredRoot ==
    \A f \in files :
        /\ Len(f) >= 4
        /\ f[1] = artifact_root
        /\ f[2] = campaign.run_id
        /\ f[3] \in ArtifactStages


(***************************************************************************)
(* C25                                                                     *)
(***************************************************************************)
\* two Python values are equal: numbers and strings by value, lists item by
\* item in order, dicts when they have the same keys and equal values under
\* each key, whatever the insertion order
RECURSIVE SameData(_, _)
SameData(x, y) ==
    /\ x.kind = y.kind
    /\ IF x.kind = "num" THEN x.num = y.num
       ELSE IF x.kind = "str" THEN x.str = y.str
       ELSE IF x.kind = "list"
       THEN /\ Len(x.elems) = Len(y.elems)
            /\ \A i \in 1..Len(x.elems) : SameData(x.elems[i], y.elems[i])
       ELSE /\ KeysOf(x) = KeysOf(y)
            /\ \A k \in KeysOf(x) : SameData(ItemOf(x, k)[2], ItemOf(y, k)[2])

\* C25: canonical_json is canonical: two payloads that are equal as data give
\* the identical text, whatever the insertion order of their keys at any
\* level, the same payload gives the same text each time, and so stable_hash
\* (the derivation's canonical_hash) is equal for equal payloads.
C25_CanonicalJson ==
    Returned("stable_hash") =>
        /\ SameData(args.first, args.second) =>
               /\ ret.text_first = ret.text_second
               /\ ret.hash_first = ret.hash_second
        /\ args.first = args.second => ret.text_first = ret.text_second
        /\ ret.text_first = canonical_json(args.first)

\* two payloads were hashed that are equal as data but differ in insertion
\* order at both levels, and the name sorts before the parameters
C25_Witness ==
    /\ Returned("stable_hash")
    /\ args.first = PyDict(<<<<"parameters", PyDict(<<<<"beta", PyNum(2)>>, <<"alpha", PyNum(1)>>>>)>>,
                            <<"name", PyStr("gr")>>>>)
    /\ args.second = PyDict(<<<<"name", PyStr("gr")>>,
                             <<"parameters", PyDict(<<<<"alpha", PyNum(1)>>, <<"beta", PyNum(2)>>>>)>>>>)
    /\ ret.text_first = "{\"name\":\"gr\",\"parameters\":{\"alpha\":1,\"beta\":2}}"
    /\ ret.hash_first = ret.hash_second


(***************************************************************************)
(* C26                                                                     *)
(***************************************************************************)
\* the history entries of the solver calls made for candidate c
SolverEntries(c) == {i \in EntriesOf(c) : calls[i].fn = "solve_qnm"}

\* the number of the qnm_runs row written by history entry i
QnmRowOf(i) ==
    Cardinality({j \in 1..i : calls[j].fn = "save_record" /\ calls[j].arg = "qnm_runs"})

\* the merged mass parameter of candidate c, 1.0 when absent
MergedMass(c) == DictGet(CandidateOf(c).parameters, "mass", 1000)

C26_State ==
    \A c \in Candidates :
        /\ ~HasCall(c, "derive_master_equation") => SolverEntries(c) = {}
        /\ Cardinality(SolverEntries(c)) <= 3
        /\ \A i \in SolverEntries(c) :
               LET j == Cardinality({k \in SolverEntries(c) : k <= i})
               IN /\ calls[i].num = MergedMass(c)
                  /\ HasCall(c, "derive_master_equation")
                  /\ IF calls[i].arg = "raised"
                     THEN \* a failing call ends the campaign: it is the last entry
                          /\ i = Len(calls)
                          /\ pc = "raised"
                          /\ MergedMass(c) <= 0
                     ELSE /\ calls[i].arg = <<"shooting", "wkb", "spectral">>[j]
                          /\ calls[i + 1] = Call("save_record", c, "qnm_runs", 0)
                          /\ LET row == ledger["qnm_runs"][QnmRowOf(i + 1)]
                             IN /\ row.method = calls[i].arg
                                /\ row.payload.method = calls[i].arg
                                /\ row.payload.l = 2
                                /\ row.payload.n = 0
                                /\ row.omega_real = row.payload.omega_real
                                /\ row.omega_imag = row.payload.omega_imag
        /\ (HasCall(c, "compare_methods") \/ HasCall(c, "evaluate_constraints")) =>
               /\ Cardinality(SolverEntries(c)) = 3
               /\ \A i \in SolverEntries(c) : calls[i].arg # "raised"
               /\ \A i \in EntriesOf(c) :
                      calls[i].fn \in {"compare_methods", "evaluate_constraints"} =>
                          \A k \in SolverEntries(c) : k < i
               /\ \A i \in EntriesOf(c) :
                      calls[i].fn = "evaluate_constraints" => calls[i].num = 3
        /\ (c = idx /\ pc \in {"constraints", "constraints_gate"}) =>
               /\ Len(qnm_results) = 3
               /\ Len(ledger["qnm_runs"]) >= 3
               /\ \A j \in 1..3 :
                      qnm_results[j] = ledger["qnm_runs"][Len(ledger["qnm_runs"]) - 3 + j].payload

C26_Step ==
    (pc = "constraints" /\ pc' = "constraints_gate") =>
        /\ qnm_results' = qnm_results
        /\ disagreement' = compare_methods(qnm_results, DefaultToleranceMicro)
        /\ constraints'.metrics["max_omega_imag"] =
               MaxOf({qnm_results[j].omega_imag : j \in 1..3})

\* C26: for every candidate past the background gate the solver is called
\* once per method in the order SHOOTING, WKB, SPECTRAL with l = 2, n = 0 and
\* the candidate's merged mass (1.0 when absent); each result carries the
\* method asked for and its qnm_runs row is written right after the call;
\* the consensus and the constraint check get exactly these three results.
\* (A solver call that raises ends the campaign there: it is then the last
\* call of the run.)
C26_SolverOncePerMethod == [](C26_State) /\ [][C26_Step]_vars

\* a candidate with merged mass 0.25 was solved three times and went on to the
\* consensus and constraint checks
C26_Witness ==
    /\ pc = "constraints_gate"
    /\ MergedMass(idx) = 250
    /\ Cardinality(SolverEntries(idx)) = 3
    /\ Len(ledger["qnm_runs"]) >= 3
    /\ ledger["qnm_runs"][Len(ledger["qnm_runs"])].method = "spectral"


(***************************************************************************)
(* C27                                                                     *)
(***************************************************************************)
\* the pipeline stage a history entry of a candidate belongs to: 0 build and
\* validate, 1 derive, 2 background, 3 perturbation, 4 QNM, 5 consensus,
\* 6 constraints, 7 novelty, 8 paper
StageOf(entry) ==
    IF entry.fn = "_proposal_to_theory" THEN 0
    ELSE IF entry.fn = "derive_field_equations" THEN 1
    ELSE IF entry.fn = "write_json_artifact" THEN 1
    ELSE IF entry.fn = "reduce_to_background_odes" THEN 2
    ELSE IF entry.fn = "derive_master_equation" THEN 3
    ELSE IF entry.fn = "write_artifact" THEN 3
    ELSE IF entry.fn = "solve_qnm" THEN 4
    ELSE IF entry.fn = "compare_methods" THEN 5
    ELSE IF entry.fn = "evaluate_constraints" THEN 6
    ELSE IF entry.fn \in {"spectrum_table", "score_novelty"} THEN 7
    ELSE IF entry.fn = "build_paper" THEN 8
    ELSE IF entry.fn = "save_record"
    THEN (IF entry.arg = "theories" THEN 0
          ELSE IF entry.arg = "derivations" THEN 1
          ELSE IF entry.arg = "qnm_runs" THEN 4
          ELSE IF entry.arg = "constraint_reports" THEN 6
          ELSE IF entry.arg = "novelty_reports" THEN 7
          ELSE 8)
    ELSE \* _log_event
         (IF entry.arg = "validate/ok" THEN 0
          ELSE IF entry.arg = "background/rejected" THEN 2
          ELSE IF entry.arg = "constraints/rejected" THEN 6
          ELSE 8)

\* the stage/status of the events the history records, in order
RECURSIVE LoggedEvents(_)
LoggedEvents(cs) ==
    IF cs = <<>> THEN <<>>
    ELSE IF Head(cs).fn = "_log_event"
         THEN <<Head(cs).arg>> \o LoggedEvents(Tail(cs))
         ELSE LoggedEvents(Tail(cs))

C27_State ==
    \* what precedes the loop and what follows it
    /\ \A i \in 1..Len(calls) :
           IF calls[i].cand = 0
           THEN i <= 4 \/ (i = Len(calls) /\ calls[i].arg = "finalize/ok")
           ELSE i > 4 /\ calls[i].cand \in Candidates /\ calls[i].cand <= idx
    \* candidate after candidate, in the order of the proposal list, and
    \* within a candidate stage after stage
    /\ Len(calls) >= 5 => calls[5].cand \in {0, 1}
    /\ \A i \in 1..(Len(calls) - 1) :
           (calls[i].cand # 0 /\ calls[i + 1].cand # 0) =>
               /\ calls[i + 1].cand \in {calls[i].cand, calls[i].cand + 1}
               /\ calls[i + 1].cand = calls[i].cand =>
                      StageOf(calls[i]) <= StageOf(calls[i + 1])
               /\ calls[i + 1].cand # calls[i].cand =>
                      /\ calls[i].arg \in TerminalEvents
                      /\ calls[i + 1].fn = "_proposal_to_theory"
    /\ \A c \in 1..Len(ledger["theories"]) :
           ledger["theories"][c].name = proposals[c].name
    \* the event log is written in the order of the history
    /\ Len(ledger["events"]) = Len(LoggedEvents(calls))
    /\ \A i \in 1..Len(ledger["events"]) :
           ledger["events"][i].stage \o "/" \o ledger["events"][i].status = LoggedEvents(calls)[i]

C27_Step ==
    \* a step appends to the history, for the candidate the loop is at
    /\ IsPrefix(calls, calls')
    /\ \A i \in (Len(calls) + 1)..Len(calls') :
           calls'[i].cand # 0 => calls'[i].cand = idx
    /\ pc # "start" => idx' \in {idx, idx + 1}

\* C27: candidates are evaluated one at a time in the order of the proposal
\* list: every call, write and event of a candidate comes before the first
\* of the next one, and within a candidate the stages follow the order build,
\* derive, background, perturbation, QNM, consensus, constraints, novelty,
\* paper; the event log is written in that same order.
C27_SequentialCandidates == [](C27_State) /\ [][C27_Step]_vars

\* a campaign returned after three candidates, the first two rejected by the
\* constraints and the third accepted
C27_Witness ==
    /\ pc = "done"
    /\ Len(proposals) = 3
    /\ HasCallArg(1, "_log_event", "constraints/rejected")
    /\ HasCallArg(2, "_log_event", "constraints/rejected")
    /\ HasCall(3, "build_paper")
    /\ calls[Len(calls)].arg = "finalize/ok"


(***************************************************************************)
(* C28                                                                     *)
(***************************************************************************)
\* C28: evaluate_constraints resolves the kinetic coefficient by ordered
\* lookup: the value of kinetic_coeff when that key is present, also when
\* zeta is present too; else the value of zeta when present; else 1.0.  That
\* value is the one in metrics["kinetic_coeff"] and the one the ghost and
\* wrong-sign rules test, whatever alpha, beta and the results are.
C28_KineticLookupOrder ==
    Returned("evaluate_constraints") =>
        LET p == args.theory.parameters
            reported == ret.metrics["kinetic_coeff"]
        IN /\ "kinetic_coeff" \in DOMAIN p => reported = p["kinetic_coeff"]
           /\ ("kinetic_coeff" \notin DOMAIN p /\ "zeta" \in DOMAIN p) => reported = p["zeta"]
           /\ ("kinetic_coeff" \notin DOMAIN p /\ "zeta" \notin DOMAIN p) => reported = 1000
           /\ ret.ghost_instability <=> reported <= 0
           /\ ret.wrong_sign_kinetic <=> reported < 0
           /\ {"kinetic_coeff", "alpha", "beta"} \subseteq DOMAIN ret.metrics

\* kinetic_coeff = 1.0 and zeta = -1.0 are both present: 1.0 is reported and
\* no kinetic flag is set
C28_Witness ==
    /\ Returned("evaluate_constraints")
    /\ "kinetic_coeff" \in DOMAIN args.theory.parameters
    /\ "zeta" \in DOMAIN args.theory.parameters
    /\ args.theory.parameters["zeta"] < 0
    /\ ret.metrics["kinetic_coeff"] = args.theory.parameters["kinetic_coeff"]
    /\ ret.metrics["kinetic_coeff"] > 0
    /\ ~ret.ghost_instability
    /\ ~ret.wrong_sign_kinetic


(***************************************************************************)
(* C29                                                                     *)
(***************************************************************************)
\* the candidates that passed the background gate
PassedBackground == {c \in Candidates : HasCall(c, "derive_master_equation")}

\* the candidates the constraint gate rejected
ConstraintRejected == {c \in Candidates : HasCallArg(c, "_log_event", "constraints/rejected")}

\* the constraint_reports row of a candidate that passed the background gate
ConstraintRowOf(c) ==
    ledger["constraint_reports"][Cardinality({b \in PassedBackground : b <= c})]

\* C29: when a campaign on a fresh database returns, theories rows =
\* derivations rows = accepted + rejected; constraint_reports rows = the
\* candidates that passed the background gate and qnm_runs rows = 3 times
\* that number; novelty_reports rows = paper_builds rows = accepted; a
\* candidate rejected by the constraints has written three qnm_runs rows and
\* one constraint_reports row, with is_valid false, and no novelty_reports or
\* paper_builds row.
C29_RowCountsMatchCounters ==
    result # None =>
        LET total == result.accepted_theories + result.rejected_theories
            passed == Cardinality(PassedBackground)
        IN /\ Len(ledger["theories"]) = total
           /\ Len(ledger["derivations"]) = total
           /\ Len(ledger["constraint_reports"]) = passed
           /\ Len(ledger["qnm_runs"]) = 3 * passed
           /\ Len(ledger["novelty_reports"]) = result.accepted_theories
           /\ Len(ledger["paper_builds"]) = result.accepted_theories
           /\ passed = total - Cardinality({c \in Candidates :
                                   HasCallArg(c, "_log_event", "background/rejected")})
           /\ Cardinality({i \in 1..Len(ledger["constraint_reports"]) :
                  ~ledger["constraint_reports"][i].is_valid}) = Cardinality(ConstraintRejected)
           /\ \A c \in ConstraintRejected :
                  /\ RowsWritten(c, "qnm_runs") = 3
                  /\ RowsWritten(c, "constraint_reports") = 1
                  /\ ~ConstraintRowOf(c).is_valid
                  /\ RowsWritten(c, "novelty_reports") = 0
                  /\ RowsWritten(c, "paper_builds") = 0
           /\ \A t \in Tables : \A i \in 1..Len(ledger[t]) : ledger[t][i].run_id = result.run_id

\* a campaign returned with a candidate rejected at the background gate, one
\* rejected by the constraints and one accepted
C29_Witness ==
    /\ result # None
    /\ result.accepted_theories = 1
    /\ result.rejected_theories = 2
    /\ Cardinality(ConstraintRejected) = 1
    /\ Cardinality(PassedBackground) = 2
    /\ Len(ledger["qnm_runs"]) = 6
    /\ Len(ledger["theories"]) = 3


(***************************************************************************)
(* C30                                                                     *)
(***************************************************************************)
\* stage/status of the i-th row of the event log
EventKind(i) == ledger["events"][i].stage \o "/" \o ledger["events"][i].status

\* the rows of the event log of the given kind
EventsOfKind(kind) == {i \in 1..Len(ledger["events"]) : EventKind(i) = kind}

C30_State ==
    LET n == Len(ledger["events"])
        validated == EventsOfKind("validate/ok")
    IN /\ pc # "start" => n >= 1 /\ EventKind(1) = "propose/started"
       /\ \A i \in 1..n :
              /\ ledger["events"][i].status \in {"started", "ok", "rejected"}
              /\ ledger["events"][i].status # "error"
              /\ EventKind(i) = "propose/started" => i = 1
              /\ EventKind(i) \in
                     {"propose/started", "validate/ok", "finalize/ok"} \cup TerminalEvents
              /\ EventKind(i) = "validate/ok" =>
                     /\ EventKind(i - 1) \in {"propose/started"} \cup TerminalEvents
                     \* the k-th validate event is the k-th candidate's
                     /\ ledger["events"][i].message =
                            "Accepted proposal payload: "
                                \o proposals[Cardinality({j \in validated : j <= i})].name
              /\ EventKind(i) \in TerminalEvents => EventKind(i - 1) = "validate/ok"
              /\ EventKind(i) = "finalize/ok" =>
                     /\ i = n
                     /\ EventKind(i - 1) \in {"propose/started"} \cup TerminalEvents
                     /\ ledger["events"][i].payload = summary
       /\ Cardinality(validated) = Len(ledger["theories"])
       \* a candidate that completed has its terminal event
       /\ \A i \in validated :
              (i < n /\ Cardinality({j \in validated : j <= i}) < idx) =>
                  EventKind(i + 1) \in TerminalEvents
       /\ Cardinality(EventsOfKind("finalize/ok")) = IF result # None THEN 1 ELSE 0
       /\ result # None =>
              /\ EventKind(n) = "finalize/ok"
              /\ ledger["events"][n].payload = result.summary
              /\ Cardinality(validated) = Len(proposals)
              /\ Cardinality(EventsOfKind("paper/ok")) = result.accepted_theories
              /\ Cardinality(EventsOfKind("background/rejected"))
                     + Cardinality(EventsOfKind("constraints/rejected")) = result.rejected_theories
       /\ pc # "start" =>
              /\ Cardinality(EventsOfKind("paper/ok")) = accepted
              /\ Cardinality(EventsOfKind("background/rejected"))
                     + Cardinality(EventsOfKind("constraints/rejected")) = rejected

C30_Step ==
    \* the log only grows, and nothing is logged after finalize
    /\ IsPrefix(ledger["events"], ledger'["events"])
    /\ result # None => ledger'["events"] = ledger["events"]
    /\ (result = None /\ result' # None) =>
           /\ Len(ledger'["events"]) = Len(ledger["events"]) + 1
           /\ ledger'["events"][Len(ledger'["events"])].stage = "finalize"

\* C30: the event log of a campaign starts with (propose, started); each
\* candidate, in order, has one (validate, ok) event followed, once it
\* completed, by exactly one of (background, rejected), (constraints,
\* rejected), (paper, ok); (finalize, ok), with the summary as payload, is
\* written once, as the last event, exactly when the campaign returns a
\* result; no event has status error; the (paper, ok) events are as many as
\* accepted_theories and the rejected events as many as rejected_theories.
C30_EventGrammar == [](C30_State) /\ [][C30_Step]_vars

\* a returned campaign logged propose, validate, paper ok, validate,
\* constraints rejected and finalize, whose payload is the summary of one
\* accepted candidate
C30_Witness ==
    /\ result # None
    /\ Len(ledger["events"]) = 6
    /\ EventKind(2) = "validate/ok"
    /\ EventKind(3) = "paper/ok"
    /\ EventKind(4) = "validate/ok"
    /\ EventKind(5) = "constraints/rejected"
    /\ EventKind(6) = "finalize/ok"
    /\ ledger["events"][6].payload = result.summary
    /\ result.summary["rows"] = 3

====
